---- MODULE Spec2Model ----
(***************************************************************************)
(* Model of the background service worker of the webhook extension: the    *)
(* per-webhook rate-limited queue (webhookQueues, addToQueue,              *)
(* processQueue), the delivery wrapper with its retries                    *)
(* (postToWebhookDirect), the queue notifications (showQueueNotification,  *)
(* clearQueueNotification) and the refresh of the queues from storage      *)
(* (initializeQueues).  Time is the value of Date.now() in milliseconds.   *)
(* A queue entry is its place in the order of the enqueues of its webhook: *)
(* the payload, the webhook name and the enqueue timestamp it carries are  *)
(* never read by the queue or the retry logic.  A storage read hands its   *)
(* callback the data stored when the callback runs.  Timer callbacks run   *)
(* at or after the time they were set for.                                  *)
(*                                                                         *)
(* Specifications: Spec (queue manager and registry changes), LiveSpec     *)
(* (the same under fair timers), SendSpec and SendLiveSpec (delivery       *)
(* wrapper, one chain at a time), NotifSpec (queue notifications), IsoSpec *)
(* (two webhooks with failing or unanswered requests), WorkerSpec (queue   *)
(* manager and delivery wrapper together), PopupSpec and SettingsSpec (the *)
(* forms of the popup), DslSpec (the custom fields parser), MenuSpec (the  *)
(* debounced rebuild of the context menus) and ModalSpec (the note modal). *)
(***************************************************************************)
EXTENDS Integers, Sequences, FiniteSets, TLC

\* ------------------------------------------------------------------ bounds
Dests == {"u1"}                 \* webhook URLs the environment uses
Urls == Dests \cup {"u2"}       \* with the second webhook of the runs on two webhooks
MaxEntries == 3                 \* payloads enqueued in one run
MaxLiveEntries == 2             \* payloads enqueued in one run of LiveSpec
MaxTicks == 3                   \* clock ticks in one run
MaxCfgPending == 1              \* storage reads of initializeQueues in flight
MaxFailures == 4                \* failed responses the endpoints give in one run
MaxWebhooks == 2                \* webhooks stored at one time
MaxDslLen == 5                  \* characters typed into the custom fields input

SecondMs == 1000                \* rateLimit * 1000, notificationInterval * SecondMs

Rates == {0, 1, 2}              \* rate limits (seconds) the webhooks are given
\* Date.now() at start: later than any interval after the epoch
StartTime == (CHOOSE r \in Rates : \A q \in Rates : q <= r) * SecondMs
TickMs == SecondMs              \* the clock advances by seconds, the unit of the rate limits
MaxTime == StartTime + MaxTicks * TickMs

\* ------------------------------------------------------- program constants
RetryCountInit == 3             \* postToWebhookDirect(webhookUrl, item.payload, 3, ...)
HttpRetryDelayMs == 1000        \* retry delay after a non-ok response
NetRetryDelayMs == 2000         \* retry delay after a network exception
AutoClearMs == 60000            \* ceiling of a queue notification
DefaultNotificationInterval == 5 \* seconds, used when no setting is stored
NoTimer == 0                    \* timer: null

NoSetting == 0                  \* no settings are stored
MinNotificationInterval == 1    \* the intervals (seconds) the settings form accepts
MaxNotificationInterval == 60

DebounceMs == 100               \* the delay of the timer of updateWebhookMenus
NoClick == 0                    \* no pendingWebhook is stored

NotifIntervals == {NoSetting}   \* notificationInterval at the start: a fresh profile

VARIABLES
  now,                \* Date.now()
  webhooks,           \* chrome.storage.local "webhooks" as extractDataAndSend looks a
                      \*   webhook up: url -> rateLimit (seconds) of the first one stored with it
  webhookList,        \* chrome.storage.local "webhooks": the array of [url, name, rateLimit]
  popup,              \* the popup page: [cards, index, message, clicked, customFieldsRaw,
                      \*   customFields], the confirm state of the delete button of each
                      \*   card, webhookForm.dataset.index (0: not set, i: the i-th
                      \*   webhook), the message displayed (the text of an error),
                      \*   (history) whether the last click was on a delete button or
                      \*   outside of them, and the values of the custom fields input and
                      \*   of the hidden input with the fields parsed from it
  modal,              \* the note modal: [pendingWebhook, windows, requests, sent, clicks], the
                      \*   click stored under "pendingWebhook" (NoClick: none), the modal
                      \*   windows open (each with, as history, the click that opened it),
                      \*   the messages of the modals whose storage read has not called back,
                      \*   and (history) the calls of extractDataAndSend made for a modal:
                      \*   the click whose data was sent and the click of the modal, and
                      \*   what has become of the modal of each click so far
  menus,              \* updateWebhookMenus: [timeout, timers, rebuilds, calls, served],
                      \*   the handle in updateWebhookMenusTimeout, the armed debounce
                      \*   timers [id, due] and (history) the number of menu rebuilds
                      \*   started, the calls since the last rebuild and the calls the last
                      \*   rebuild came after (both: 0, 1, or 2 for two or more)
  cfgPending,         \* storage reads issued by initializeQueues, callback not yet run
  webhookQueues,      \* Map url -> [queue, lastSent, timer, rateLimit]
  timers,             \* armed setTimeout timers of processQueue: [id, url, due]
  queueNotifications, \* Map url -> [notificationId, intervalId]
  pendingShow,        \* settings reads issued by showQueueNotification: [id, url, notificationId]
  intervals,          \* live setInterval timers of updateNotification:
                      \*   [id, url, notificationId, period, created, due]
  ceilings,           \* armed 60 s auto-clear timers: [id, url, due]
  rendered,           \* notifications currently displayed: [id, positionCount, totalWait]
  deliveries,         \* one record per dispatched entry, the state of its postToWebhookDirect
                      \*   chain: [url, id, retryCount, phase, failedAt, due] and its history:
                      \*   the outcomes of the attempts, the completion events shown, the time
                      \*   each retry waited after the failure before it (up to 2000 ms), and
                      \*   what the message of each event quotes: the status code or the error
                      \*   message of an attempt, or nothing
  enqueued,           \* history: url -> number of entries appended so far
  dispatched,         \* history: url -> ids of the entries handed to postToWebhookDirect, in order
  rlSince,            \* history: url -> the rate limit the queue had since its last dispatch,
                      \*   as a set: {} without a queue, Rates when it had more than one
  sentBefore,         \* history: url -> Date.now() at the last dispatch
  drained,            \* history: url -> the last dispatch left the queue empty
  lastGap,            \* history: url -> the last dispatch: [first, elapsed, rates, idle], the time
                      \*   since the dispatch before it (up to the largest interval), the rate limit the queue had in between
                      \*   and whether the queue had run empty in between
  failures,           \* history: failed responses given so far
  notificationInterval \* chrome.storage.local settings.notificationInterval (seconds),
                      \*   NoSetting without stored settings

vars == <<now, webhooks, webhookList, popup, modal, menus, cfgPending, webhookQueues, timers, queueNotifications,
          pendingShow, intervals, ceilings, rendered, deliveries,
          enqueued, dispatched, rlSince, sentBefore, drained, lastGap, failures,
          notificationInterval>>

\* ----------------------------------------------------------------- helpers
NoGap == [first |-> TRUE, elapsed |-> 0, rates |-> {}, idle |-> TRUE]

AtMost(x, cap) == IF x > cap THEN cap ELSE x

\* the rate limits seen so far, one more seen: none, one, or (as Rates) several
Seen(since, rateLimit) ==
  IF since \subseteq {rateLimit} THEN {rateLimit} ELSE Rates

Min(S) == CHOOSE x \in S : \A y \in S : x <= y

\* Math.max(0, x)
Max0(x) == IF x > 0 THEN x ELSE 0

\* Math.ceil(ms / 1000) of a whole number of milliseconds
CeilSeconds(ms) == (ms + SecondMs - 1) \div SecondMs

Ids(S) == {t.id : t \in S}

\* setTimeout / setInterval return a handle no live timer has and that no
\* queue still holds
NewHandle(used) == Min((1..(Cardinality(used) + 1)) \ used)

Registries == UNION {[D -> Rates] : D \in SUBSET Dests}

\* a hole of the stored array, read back as null
Null == [null |-> TRUE]

IsNull(hook) == "null" \in DOMAIN hook

\* the webhooks a forEach / find over the stored array visits before it reads
\* a property of null and throws
RECURSIVE Visited(_)
Visited(list) ==
  IF list = <<>> \/ IsNull(Head(list)) THEN <<>>
  ELSE <<Head(list)>> \o Visited(Tail(list))

\* webhooks.find((wh) => wh.url === webhookUrl) for every url, and rateLimit of it
Lookup(list) ==
  LET seen == Visited(list)
      found(u) == Min({i \in 1..Len(seen) : seen[i].url = u})
  IN [u \in {seen[i].url : i \in 1..Len(seen)} |-> seen[found(u)].rateLimit]

\* a stored array of the registry w: one webhook per url
UrlOrder == <<"u1", "u2">>

ListOf(w) ==
  LET RECURSIVE Hooks(_)
      Hooks(us) == IF us = <<>> THEN <<>>
                   ELSE <<[url |-> Head(us), name |-> "n", rateLimit |-> w[Head(us)]]>>
                        \o Hooks(Tail(us))
  IN Hooks(SelectSeq(UrlOrder, LAMBDA u : u \in DOMAIN w))

\* the popup page is not open
Closed == [cards |-> <<>>, index |-> 0, message |-> "none", clicked |-> "none",
           customFieldsRaw |-> <<>>, customFields |-> <<>>]

NoPopup == webhookList = ListOf(webhooks) /\ popup = Closed

Remove(f, k) == [x \in (DOMAIN f) \ {k} |-> f[x]]

Put(f, k, v) == [x \in (DOMAIN f) \cup {k} |-> IF x = k THEN v ELSE f[x]]

\* The part of the state that addToQueue and processQueue work on
State == [wq |-> webhookQueues, timers |-> timers, qn |-> queueNotifications,
          pendingShow |-> pendingShow, intervals |-> intervals, rendered |-> rendered,
          deliveries |-> deliveries, dispatched |-> dispatched, rlSince |-> rlSince,
          sentBefore |-> sentBefore, drained |-> drained, lastGap |-> lastGap]

UsedTimerHandles(st) == Ids(st.timers) \cup {st.wq[u].timer : u \in DOMAIN st.wq}

\* clearTimeout(handle): a no-op for null and for a timer that has fired
clearTimeout(ts, handle) == {t \in ts : t.id # handle}

\* ------------------------------------------------ clearQueueNotification
clearQueueNotification(st, url) ==
  IF url \in DOMAIN st.qn
  THEN [st EXCEPT !.intervals = {i \in @ : i.id # st.qn[url].intervalId},
                  !.rendered = {r \in @ : r.id # st.qn[url].notificationId},
                  !.qn = Remove(@, url)]
  ELSE st

\* --------------------------------------------------- postToWebhookDirect
\* The first call of the chain: the fetch is issued, its outcome comes later
postToWebhookDirect(st, url, item, retryCount) ==
  [st EXCEPT !.deliveries = @ \cup {[url |-> url, id |-> item.id,
                                      retryCount |-> retryCount, phase |-> "fetch",
                                      sentAt |-> now, rates |-> st.rlSince[url],
                                      failedAt |-> 0, due |-> 0, outcomes |-> <<>>,
                                      waits |-> <<>>,
                                      events |-> <<>>, details |-> <<>>]},
             !.dispatched[url] = Append(@, item.id),
             !.lastGap[url] = [first |-> st.dispatched[url] = <<>>,
                               elapsed |-> AtMost(now - st.sentBefore[url], StartTime),
                               rates |-> st.rlSince[url],
                               idle |-> st.drained[url]],
             !.sentBefore[url] = now,
             !.drained[url] = (st.wq[url].queue = <<>>),
             !.rlSince[url] = {st.wq[url].rateLimit}]

\* ------------------------------------------------------------ processQueue
\* the handle is stored but no timer runs for it
ArmAfterDispatchHandleOnly(st, url, rateLimitMs) ==
  [st EXCEPT !.wq[url].timer = NewHandle(UsedTimerHandles(st))]

ArmAfterDispatch(st, url, rateLimitMs) ==
  LET h == NewHandle(UsedTimerHandles(st))
  IN [st EXCEPT !.timers = @ \cup {[id |-> h, url |-> url, due |-> now + rateLimitMs]},
                !.wq[url].timer = h]

NeedWaitInSeconds(queueData) ==
  /\ queueData.rateLimit > 0
  /\ now - queueData.lastSent < queueData.rateLimit

\* the wait branch taken also while a send is not through
NeedWaitForSends(queueData) ==
  \/ /\ queueData.rateLimit > 0
     /\ now - queueData.lastSent < queueData.rateLimit * SecondMs
  \/ \E dl \in deliveries : dl.phase # "done"

\* the wait branch left a second before the interval is over
NeedWaitSecondShort(queueData) ==
  /\ queueData.rateLimit > 0
  /\ now - queueData.lastSent + SecondMs < queueData.rateLimit * SecondMs

\* the test of the wait branch
NeedWait(queueData) ==
  /\ queueData.rateLimit > 0
  /\ now - queueData.lastSent < queueData.rateLimit * SecondMs

\* the timer the queue holds is cancelled and none is armed
CancelOnly(st, url, waitTime) ==
  [st EXCEPT !.timers = clearTimeout(st.timers, st.wq[url].timer)]

\* the wait branch arming the timer for the whole interval
ArmWaitFullInterval(st, url, waitTime) ==
  LET kept == clearTimeout(st.timers, st.wq[url].timer)
      h == NewHandle(Ids(kept) \cup {st.wq[u].timer : u \in DOMAIN st.wq})
  IN [st EXCEPT !.timers = kept \cup {[id |-> h, url |-> url,
                                        due |-> now + st.wq[url].rateLimit * SecondMs]},
                !.wq[url].timer = h]

\* the wait branch stamping lastSent as it arms the timer
ArmWaitStamped(st, url, waitTime) ==
  LET kept == clearTimeout(st.timers, st.wq[url].timer)
      h == NewHandle(Ids(kept) \cup {st.wq[u].timer : u \in DOMAIN st.wq})
  IN [st EXCEPT !.timers = kept \cup {[id |-> h, url |-> url, due |-> now + waitTime]},
                !.wq[url].timer = h,
                !.wq[url].lastSent = now]

\* the wait branch: cancel the timer the queue holds, arm one for waitTime
ArmWait(st, url, waitTime) ==
  LET kept == IF st.wq[url].timer # NoTimer
              THEN clearTimeout(st.timers, st.wq[url].timer)
              ELSE st.timers
      h == NewHandle(Ids(kept) \cup {st.wq[u].timer : u \in DOMAIN st.wq})
  IN [st EXCEPT !.timers = kept \cup {[id |-> h, url |-> url, due |-> now + waitTime]},
                !.wq[url].timer = h]

\* queue.pop(): the entry at the end is removed, the head is sent
ShiftFromEnd(queue) == SubSeq(queue, 1, Len(queue) - 1)

Shift(queue) == Tail(queue)

RECURSIVE processQueue(_, _)
processQueue(st, url) ==
  IF url \notin DOMAIN st.wq \/ st.wq[url].queue = <<>>
  THEN st
  ELSE
    LET queueData == st.wq[url]
        timeSinceLastSent == now - queueData.lastSent
        rateLimitMs == queueData.rateLimit * SecondMs
    IN IF NeedWait(queueData)
       THEN ArmWait(st, url, rateLimitMs - timeSinceLastSent)
       ELSE \* send the next item in queue
         LET item == Head(queueData.queue)
             shifted == [st EXCEPT !.wq[url].queue = Shift(@),
                                   !.wq[url].lastSent = now]
             cleared == clearQueueNotification(shifted, url)
             posted == postToWebhookDirect(cleared, url, item, RetryCountInit)
         IN IF posted.wq[url].queue # <<>>
            THEN IF queueData.rateLimit > 0
                 THEN ArmAfterDispatch(posted, url, rateLimitMs)
                 ELSE processQueue(posted, url)
            ELSE posted

\* ---------------------------------------------------- showQueueNotification
\* The synchronous part: the id is built, the live notification of the
\* webhook is cleared and the settings read is issued
showQueueNotification(st, url) ==
  LET notificationId == <<url, now>>
      cleared == clearQueueNotification(st, url)
  IN [cleared EXCEPT !.pendingShow = @ \cup {[id |-> NewHandle(Ids(st.pendingShow)),
                                               url |-> url,
                                               notificationId |-> notificationId]}]

\* -------------------------------------------------------------- addToQueue
\* a new queue that counts as having sent at its creation
NewQueueJustSent(rateLimit) ==
  [queue |-> <<>>, lastSent |-> now, timer |-> NoTimer, rateLimit |-> rateLimit]

NewQueue(rateLimit) ==
  [queue |-> <<>>, lastSent |-> 0, timer |-> NoTimer, rateLimit |-> rateLimit]

PushFront(queue, item) == <<item>> \o queue

Push(queue, item) == Append(queue, item)

willBeQueuedNoRateTest(queueData) ==
  \/ Len(queueData.queue) > 1
  \/ now - queueData.lastSent < queueData.rateLimit * SecondMs

willBeQueuedAnyLength(queueData) ==
  /\ queueData.rateLimit > 0
  /\ \/ Len(queueData.queue) > 0
     \/ now - queueData.lastSent < queueData.rateLimit * SecondMs

willBeQueued(queueData) ==
  /\ queueData.rateLimit > 0
  /\ \/ Len(queueData.queue) > 1
     \/ now - queueData.lastSent < queueData.rateLimit * SecondMs

\* addToQueue without the update of the rate limit of an existing queue
addToQueueKeepRate(st, url, item, rateLimit) ==
  LET created == IF url \in DOMAIN st.wq
                 THEN st
                 ELSE [st EXCEPT !.wq = Put(@, url, NewQueue(rateLimit)),
                                 !.rlSince[url] = {rateLimit}]
      pushed == [created EXCEPT !.wq[url].queue = Push(@, item)]
      notified == IF willBeQueued(pushed.wq[url])
                  THEN showQueueNotification(pushed, url)
                  ELSE pushed
  IN processQueue(notified, url)

\* addToQueue writing the rate limit into every queue
addToQueueAllRates(st, url, item, rateLimit) ==
  LET created == IF url \in DOMAIN st.wq
                 THEN st
                 ELSE [st EXCEPT !.wq = Put(@, url, NewQueue(rateLimit)),
                                 !.rlSince[url] = {rateLimit}]
      pushed == [created EXCEPT !.wq = [u \in DOMAIN @ |-> [@[u] EXCEPT !.rateLimit = rateLimit]],
                                !.wq[url].queue = Push(@, item),
                                !.rlSince[url] = Seen(@, rateLimit)]
      notified == IF willBeQueued(pushed.wq[url])
                  THEN showQueueNotification(pushed, url)
                  ELSE pushed
  IN processQueue(notified, url)

addToQueue(st, url, item, rateLimit) ==
  LET created == IF url \in DOMAIN st.wq
                 THEN st
                 ELSE [st EXCEPT !.wq = Put(@, url, NewQueue(rateLimit)),
                                 !.rlSince[url] = {rateLimit}]
      pushed == [created EXCEPT !.wq[url].rateLimit = rateLimit,
                                !.wq[url].queue = Push(@, item),
                                !.rlSince[url] = Seen(@, rateLimit)]
      notified == IF willBeQueued(pushed.wq[url])
                  THEN showQueueNotification(pushed, url)
                  ELSE pushed
  IN processQueue(notified, url)

\* The state record written back to the variables
Commit(st) ==
  /\ webhookQueues' = st.wq
  /\ timers' = st.timers
  /\ queueNotifications' = st.qn
  /\ pendingShow' = st.pendingShow
  /\ intervals' = st.intervals
  /\ rendered' = st.rendered
  /\ deliveries' = st.deliveries
  /\ dispatched' = st.dispatched
  /\ rlSince' = st.rlSince
  /\ sentBefore' = st.sentBefore
  /\ drained' = st.drained
  /\ lastGap' = st.lastGap

\* -------------------------------------------------------------- the actions
\* the worker has started: no queue, no timer, nothing displayed or sent
\* ------------------------------------------------------ updateWebhookMenus
\* the timer is set and the one before it is left armed
updateWebhookMenusNoClear(m) ==
  LET h == NewHandle(Ids(m.timers))
  IN [m EXCEPT !.timers = @ \cup {[id |-> h, due |-> now + DebounceMs]}, !.timeout = h,
               !.calls = AtMost(@ + 1, 2)]

\* clearTimeout(updateWebhookMenusTimeout); updateWebhookMenusTimeout = setTimeout(..., 100)
updateWebhookMenus(m) ==
  LET kept == clearTimeout(m.timers, m.timeout)
      h == NewHandle(Ids(kept))
  IN [m EXCEPT !.timers = kept \cup {[id |-> h, due |-> now + DebounceMs]}, !.timeout = h,
               !.calls = AtMost(@ + 1, 2)]

\* no modal is open and nothing is stored for one
NoModal == [pendingWebhook |-> NoClick, windows |-> {}, requests |-> {}, sent |-> <<>>,
            clicks |-> <<>>]

Started ==
  /\ modal = NoModal
  /\ menus = updateWebhookMenus([timeout |-> NoTimer, timers |-> {}, rebuilds |-> 0,
                                 calls |-> 0, served |-> 0])   \* onStartup
  /\ cfgPending = 1            \* onInstalled / onStartup call initializeQueues
  /\ webhookQueues = <<>>
  /\ timers = {}
  /\ queueNotifications = <<>>
  /\ pendingShow = {}
  /\ intervals = {}
  /\ ceilings = {}
  /\ rendered = {}
  /\ deliveries = {}
  /\ enqueued = [u \in Urls |-> 0]
  /\ dispatched = [u \in Urls |-> <<>>]
  /\ rlSince = [u \in Urls |-> {}]
  /\ sentBefore = [u \in Urls |-> 0]
  /\ drained = [u \in Urls |-> TRUE]
  /\ lastGap = [u \in Urls |-> NoGap]
  /\ failures = 0

Init ==
  /\ now = StartTime
  /\ webhooks \in Registries
  /\ NoPopup
  /\ notificationInterval \in NotifIntervals
  /\ Started

TotalEnqueued == LET RECURSIVE Sum(_)
                     Sum(S) == IF S = {} THEN 0
                               ELSE LET u == CHOOSE x \in S : TRUE
                                    IN enqueued[u] + Sum(S \ {u})
                 IN Sum(Urls)

\* extractDataAndSend, last storage callback: the webhook is looked up by its
\* url and the payload is handed to addToQueue
StoredRateLimit(url) == IF url \in DOMAIN webhooks THEN webhooks[url] ELSE 0

Enqueue(url) ==
  /\ TotalEnqueued < MaxEntries
  /\ LET item == [id |-> enqueued[url] + 1]
     IN Commit(addToQueue(State, url, item, StoredRateLimit(url)))
  /\ enqueued' = [enqueued EXCEPT ![url] = @ + 1]
  /\ UNCHANGED <<now, webhooks, webhookList, popup, modal, menus, cfgPending, ceilings, failures, notificationInterval>>

\* a processQueue timer fires: setTimeout(() => processQueue(webhookUrl), ...)
TimerFire(t) ==
  /\ t \in timers
  /\ now >= t.due
  /\ Commit(processQueue([State EXCEPT !.timers = @ \ {t}], t.url))
  /\ UNCHANGED <<now, webhooks, webhookList, popup, modal, menus, cfgPending, ceilings, enqueued, failures, notificationInterval>>

\* the popup stores the webhook list (a rename or a changed selector stores the
\* same urls and rate limits again); storage.onChanged calls initializeQueues
StorageChange(w) ==
  /\ w \in Registries
  /\ cfgPending < MaxCfgPending
  /\ webhooks' = w
  /\ webhookList' = ListOf(w)
  /\ cfgPending' = cfgPending + 1
  /\ menus' = updateWebhookMenus(menus)
  /\ UNCHANGED <<now, popup, modal, webhookQueues, timers, queueNotifications, pendingShow, intervals,
                 ceilings, rendered, deliveries, enqueued, dispatched, rlSince, sentBefore, drained, lastGap,
                 failures, notificationInterval>>

\* every stored webhook gets a fresh queue
initializeQueuesReset(wq, data) ==
  [u \in (DOMAIN wq) \cup (DOMAIN data) |->
     IF u \notin DOMAIN data THEN wq[u] ELSE NewQueue(data[u])]

\* every refresh discards the oldest pending entry of a stored webhook
initializeQueuesDropHead(wq, data) ==
  [u \in (DOMAIN wq) \cup (DOMAIN data) |->
     IF u \notin DOMAIN data THEN wq[u]
     ELSE IF u \notin DOMAIN wq THEN NewQueue(data[u])
     ELSE [wq[u] EXCEPT !.rateLimit = data[u],
                        !.queue = IF @ = <<>> THEN @ ELSE Tail(@)]]

\* a refresh gives a stored webhook whose queue is empty a fresh queue
initializeQueuesForgetIdle(wq, data) ==
  [u \in (DOMAIN wq) \cup (DOMAIN data) |->
     IF u \notin DOMAIN data THEN wq[u]
     ELSE IF u \notin DOMAIN wq \/ wq[u].queue = <<>> THEN NewQueue(data[u])
     ELSE [wq[u] EXCEPT !.rateLimit = data[u]]]

\* initializeQueues, the storage callback
initializeQueues(wq, data) ==
  [u \in (DOMAIN wq) \cup (DOMAIN data) |->
     IF u \notin DOMAIN data THEN wq[u]
     ELSE IF u \notin DOMAIN wq THEN NewQueue(data[u])
     ELSE [wq[u] EXCEPT !.rateLimit = data[u]]]

\* data.webhooks.forEach(...), one webhook of the array after the other
RECURSIVE forEachWebhook(_, _)
forEachWebhook(wq, list) ==
  IF list = <<>> THEN wq
  ELSE forEachWebhook(initializeQueues(wq, Head(list).url :> Head(list).rateLimit),
                      Tail(list))

Configure ==
  /\ cfgPending > 0
  /\ cfgPending' = cfgPending - 1
  /\ webhookQueues' = forEachWebhook(webhookQueues, Visited(webhookList))
  /\ rlSince' = [u \in Urls |-> IF u \in DOMAIN webhooks
                                 THEN Seen(rlSince[u], webhookQueues'[u].rateLimit)
                                 ELSE rlSince[u]]
  /\ UNCHANGED <<now, webhooks, webhookList, popup, modal, menus, timers, queueNotifications, pendingShow, intervals,
                 ceilings, rendered, deliveries, enqueued, dispatched, sentBefore, drained,
                 lastGap, failures, notificationInterval>>

\* the estimate without the floor of the wait at 0
totalWaitUnfloored(queueData) ==
  LET rateLimitMs == queueData.rateLimit * SecondMs
      waitTime == rateLimitMs - (now - queueData.lastSent)
  IN CeilSeconds(waitTime + (Len(queueData.queue) - 1) * rateLimitMs)

\* the estimate in the message of the queue notification
totalWait(queueData) ==
  LET timeSinceLastSent == now - queueData.lastSent
      rateLimitMs == queueData.rateLimit * SecondMs
      waitTime == Max0(rateLimitMs - timeSinceLastSent)
      queuePosition == Len(queueData.queue)
  IN CeilSeconds(waitTime + (queuePosition - 1) * rateLimitMs)

\* showQueueNotification, the settings callback: chrome.notifications.create
\* displays the notification or replaces the one displayed under the same id
updateNotification(st, url, notificationId) ==
  IF url \notin DOMAIN st.wq \/ st.wq[url].queue = <<>>
  THEN clearQueueNotification(st, url)
  ELSE [st EXCEPT !.rendered = {r \in @ : r.id # notificationId}
                                 \cup {[id |-> notificationId,
                                         positionCount |-> Len(st.wq[url].queue),
                                         totalWait |-> totalWait(st.wq[url])]}]

\* chrome.storage.local.get({ settings: { notificationInterval: 5 } }, ...)
settings ==
  [notificationInterval |-> IF notificationInterval = NoSetting
                            THEN DefaultNotificationInterval ELSE notificationInterval]

ShowCallback(p) ==
  /\ p \in pendingShow
  /\ LET updateIntervalMs == settings.notificationInterval * SecondMs
         updated == updateNotification([State EXCEPT !.pendingShow = @ \ {p}],
                                       p.url, p.notificationId)
         intervalId == NewHandle(Ids(updated.intervals)
                                 \cup {updated.qn[u].intervalId : u \in DOMAIN updated.qn})
         set == [updated EXCEPT
                   !.intervals = @ \cup {[id |-> intervalId, url |-> p.url,
                                          notificationId |-> p.notificationId,
                                          period |-> updateIntervalMs,
                                          created |-> now,
                                          due |-> now + updateIntervalMs]},
                   !.qn = Put(@, p.url, [notificationId |-> p.notificationId,
                                         intervalId |-> intervalId])]
     IN /\ Commit(set)
        /\ ceilings' = ceilings \cup {[id |-> NewHandle(Ids(ceilings)), url |-> p.url,
                                       due |-> now + AutoClearMs]}
  /\ UNCHANGED <<now, webhooks, webhookList, popup, modal, menus, cfgPending, enqueued, failures, notificationInterval>>

\* setInterval(updateNotification, updateIntervalMs) fires
IntervalTick(i) ==
  /\ i \in intervals
  /\ now >= i.due
  /\ LET rearmed == [State EXCEPT !.intervals = (@ \ {i}) \cup {[i EXCEPT !.due = now + i.period]}]
     IN Commit(updateNotification(rearmed, i.url, i.notificationId))
  /\ UNCHANGED <<now, webhooks, webhookList, popup, modal, menus, cfgPending, ceilings, enqueued, failures, notificationInterval>>

\* setTimeout(() => clearQueueNotification(webhookUrl), 60000) fires
CeilingFire(c) ==
  /\ c \in ceilings
  /\ now >= c.due
  /\ ceilings' = ceilings \ {c}
  /\ Commit(clearQueueNotification(State, c.url))
  /\ UNCHANGED <<now, webhooks, webhookList, popup, modal, menus, cfgPending, enqueued, failures, notificationInterval>>

\* ------------------------------------------- postToWebhookDirect, outcomes
Outcomes == {"ok", "nonok", "exception"}

RetryDelayHalved(outcome) == IF outcome = "nonok" THEN 500 ELSE NetRetryDelayMs

RetryDelay(outcome) == IF outcome = "nonok" THEN HttpRetryDelayMs ELSE NetRetryDelayMs

\* what the message of a completion event quotes
FixedText == [carries |-> "nothing", attempt |-> 0]

ErrorMessage(attempt) == [carries |-> "message", attempt |-> attempt]

StatusCode(attempt) == [carries |-> "status", attempt |-> attempt]

\* the callbacks of fetch, without a notification for the last non-ok response
SettleSilentOnHttpFailure(dl, outcome) ==
  LET seen == [dl EXCEPT !.outcomes = Append(@, outcome)]
  IN IF outcome # "ok" /\ dl.retryCount > 0
       THEN [seen EXCEPT !.phase = "wait", !.failedAt = now, !.due = now + RetryDelay(outcome)]
     ELSE IF outcome = "ok"
       THEN [seen EXCEPT !.phase = "done", !.events = Append(@, "success"),
                         !.details = Append(@, FixedText)]
     ELSE IF outcome = "nonok"
       THEN [seen EXCEPT !.phase = "done"]
     ELSE [seen EXCEPT !.phase = "done", !.events = Append(@, "networkError"),
                       !.details = Append(@, ErrorMessage(Len(seen.outcomes)))]

\* the callbacks of fetch retrying while retryCount >= 0
SettleRetryAtZero(dl, outcome) ==
  LET seen == [dl EXCEPT !.outcomes = Append(@, outcome)]
  IN IF outcome = "ok"
       THEN [seen EXCEPT !.phase = "done", !.events = Append(@, "success"),
                         !.details = Append(@, FixedText)]
     ELSE [seen EXCEPT !.phase = "wait", !.failedAt = now, !.due = now + RetryDelay(outcome)]

\* .then((response) => ...) and .catch((error) => ...)
Settle(dl, outcome) ==
  LET seen == [dl EXCEPT !.outcomes = Append(@, outcome)]
  IN IF outcome = "nonok" /\ dl.retryCount > 0
       THEN [seen EXCEPT !.phase = "wait", !.failedAt = now, !.due = now + RetryDelay(outcome)]
     ELSE IF outcome = "ok"
       THEN [seen EXCEPT !.phase = "done", !.events = Append(@, "success"),
                         !.details = Append(@, FixedText)]
     ELSE IF outcome = "nonok"
       THEN [seen EXCEPT !.phase = "done", !.events = Append(@, "httpError"),
                         !.details = Append(@, FixedText)]
     ELSE IF dl.retryCount > 0
       THEN [seen EXCEPT !.phase = "wait", !.failedAt = now, !.due = now + RetryDelay(outcome)]
     ELSE [seen EXCEPT !.phase = "done", !.events = Append(@, "networkError"),
                       !.details = Append(@, ErrorMessage(Len(seen.outcomes)))]

\* the callbacks of fetch putting the entry back into its queue after the
\* last failure
RespondRequeue(dl, outcome) ==
  /\ dl \in deliveries
  /\ dl.phase = "fetch"
  /\ outcome \in Outcomes
  /\ outcome # "ok" => failures < MaxFailures
  /\ deliveries' = (deliveries \ {dl}) \cup {Settle(dl, outcome)}
  /\ failures' = IF outcome = "ok" THEN failures ELSE failures + 1
  /\ webhookQueues' = IF outcome # "ok" /\ dl.retryCount = 0
                       THEN [webhookQueues EXCEPT ![dl.url].queue = Append(@, [id |-> dl.id])]
                       ELSE webhookQueues
  /\ UNCHANGED <<now, webhooks, webhookList, popup, modal, menus, cfgPending, timers, queueNotifications,
                 pendingShow, intervals, ceilings, rendered, enqueued, dispatched, rlSince,
                 sentBefore, drained, lastGap, notificationInterval>>

Respond(dl, outcome) ==
  /\ dl \in deliveries
  /\ dl.phase = "fetch"
  /\ outcome \in Outcomes
  /\ outcome # "ok" => failures < MaxFailures
  /\ deliveries' = (deliveries \ {dl}) \cup {Settle(dl, outcome)}
  /\ failures' = IF outcome = "ok" THEN failures ELSE failures + 1
  /\ UNCHANGED <<now, webhooks, webhookList, popup, modal, menus, cfgPending, webhookQueues, timers, queueNotifications,
                 pendingShow, intervals, ceilings, rendered, enqueued, dispatched, rlSince,
                 sentBefore, drained, lastGap, notificationInterval>>

\* the retry timer calling postToWebhookDirect with the counter it was given
RetryKeepCount(dl) ==
  [dl EXCEPT !.phase = "fetch",
             !.waits = Append(@, AtMost(now - dl.failedAt, NetRetryDelayMs))]

\* the retry timer fires: postToWebhookDirect(webhookUrl, payload, retryCount - 1, webhookName)
Retry(dl) ==
  [dl EXCEPT !.phase = "fetch", !.retryCount = @ - 1,
             !.waits = Append(@, AtMost(now - dl.failedAt, NetRetryDelayMs))]

RetryFire(dl) ==
  /\ dl \in deliveries
  /\ dl.phase = "wait"
  /\ now >= dl.due
  /\ deliveries' = (deliveries \ {dl}) \cup {Retry(dl)}
  /\ UNCHANGED <<now, webhooks, webhookList, popup, modal, menus, cfgPending, webhookQueues, timers, queueNotifications,
                 pendingShow, intervals, ceilings, rendered, enqueued, dispatched, rlSince,
                 sentBefore, drained, lastGap, failures, notificationInterval>>

\* ------------------------------------------------------------------- time
\* One-shot timers somebody waits for: the clock can always reach them
OneShotDues == {t.due : t \in timers} \cup {c.due : c \in ceilings}
               \cup {dl.due : dl \in {x \in deliveries : x.phase = "wait"}}

NextTimes == {t \in {now + TickMs} \cup {i.due : i \in intervals} : t > now /\ t <= MaxTime}
             \cup {t \in OneShotDues : t > now}

Tick ==
  /\ \E t \in NextTimes : now' = t
  /\ UNCHANGED <<webhooks, webhookList, popup, modal, menus, cfgPending, webhookQueues, timers, queueNotifications,
                 pendingShow, intervals, ceilings, rendered, deliveries, enqueued,
                 dispatched, rlSince, sentBefore, drained, lastGap, failures,
                 notificationInterval>>

\* The queue manager: enqueues, wake-up timers, registry changes and the clock.
\* The sends it starts stay in flight: postToWebhookDirect and the notification
\* callbacks read the queues but never write them.
Next ==
  \/ \E url \in Dests : Enqueue(url)
  \/ \E t \in timers : TimerFire(t)
  \/ \E w \in Registries : StorageChange(w)
  \/ Configure
  \/ Tick

Spec == Init /\ [][Next]_vars

\* The queue manager with fewer entries and a clock that moves from one armed
\* timer to the next, for the properties of whole runs
LiveEnqueue(url) == TotalEnqueued < MaxLiveEntries /\ Enqueue(url)

LiveTick == (\E t \in OneShotDues : t > now) /\ Tick

LiveNext ==
  \/ \E url \in Dests : LiveEnqueue(url)
  \/ \E t \in timers : TimerFire(t)
  \/ \E w \in Registries : StorageChange(w)
  \/ Configure
  \/ LiveTick

\* Armed timers eventually fire and the clock does not stop before them
Fairness ==
  /\ WF_vars(LiveTick)
  /\ WF_vars(\E t \in timers : TimerFire(t))

LiveSpec == Init /\ [][LiveNext]_vars /\ Fairness

\* The delivery wrapper: every entry is enqueued once the chain of the entry
\* before it has ended, and the endpoint answers each request in any way
AllDelivered ==
  /\ \A u \in Dests : Len(dispatched[u]) = enqueued[u]
  /\ \A dl \in deliveries : dl.phase = "done"

EnqueueIdle(url) == AllDelivered /\ Enqueue(url)

SendNext ==
  \/ \E url \in Dests : EnqueueIdle(url)
  \/ \E t \in timers : TimerFire(t)
  \/ \E dl \in deliveries, outcome \in Outcomes : Respond(dl, outcome)
  \/ \E dl \in deliveries : RetryFire(dl)
  \/ Tick

SendSpec == Init /\ [][SendNext]_vars

\* The queue notifications: webhooks with a rate limit, enqueues, wake-up
\* timers, and the settings callback, the update interval and the 60 s timer of
\* showQueueNotification, each running at any time after it is due
NotifRates == {2, 10}           \* rate limits (seconds) of the webhooks
NotifStartTime == (CHOOSE r \in NotifRates : \A q \in NotifRates : q <= r) * SecondMs
NotifMaxTime == NotifStartTime + MaxTicks * TickMs

NotifInit ==
  /\ now = NotifStartTime
  /\ webhooks \in [Dests -> NotifRates]
  /\ NoPopup
  /\ notificationInterval \in NotifIntervals
  /\ Started

NotifTick ==
  /\ \E t \in {now + TickMs} \cup {i.due : i \in intervals} \cup OneShotDues :
        /\ t > now
        /\ t <= NotifMaxTime \/ t \in OneShotDues
        /\ now' = t
  /\ UNCHANGED <<webhooks, webhookList, popup, modal, menus, cfgPending, webhookQueues, timers, queueNotifications,
                 pendingShow, intervals, ceilings, rendered, deliveries, enqueued,
                 dispatched, rlSince, sentBefore, drained, lastGap, failures,
                 notificationInterval>>

NotifNext ==
  \/ \E url \in Dests : Enqueue(url)
  \/ \E t \in timers : TimerFire(t)
  \/ \E p \in pendingShow : ShowCallback(p)
  \/ \E i \in intervals : IntervalTick(i)
  \/ \E c \in ceilings : CeilingFire(c)
  \/ NotifTick

NotifSpec == NotifInit /\ [][NotifNext]_vars

\* The delivery wrapper with endpoints that answer every request in the end,
\* in any way, and retry timers that fire
SendLiveEnqueue(url) == TotalEnqueued < MaxLiveEntries /\ EnqueueIdle(url)

SendLiveNext ==
  \/ \E url \in Dests : SendLiveEnqueue(url)
  \/ \E t \in timers : TimerFire(t)
  \/ \E dl \in deliveries, outcome \in Outcomes : Respond(dl, outcome)
  \/ \E dl \in deliveries : RetryFire(dl)
  \/ LiveTick

SendFairness ==
  /\ Fairness
  /\ WF_vars(\E dl \in deliveries, outcome \in Outcomes : Respond(dl, outcome))
  /\ WF_vars(\E dl \in deliveries : RetryFire(dl))

SendLiveSpec == Init /\ [][SendLiveNext]_vars /\ SendFairness

\* Two webhooks side by side: enqueues for either, wake-up timers, and
\* endpoints that answer a request or leave it unanswered; the requests of one
\* entry are answered in any way, those of the others with ok if at all.  The
\* clock moves from one armed timer or retry to the next.
IsoRates == {0, 1}              \* rate limits (seconds) of the two webhooks

IsoInit ==
  /\ now = StartTime
  /\ webhooks \in [Urls -> IsoRates]
  /\ NoPopup
  /\ notificationInterval \in NotifIntervals
  /\ Started

IsoRespond(dl, outcome) ==
  /\ outcome # "ok" => \A o \in deliveries \ {dl} : o.outcomes \in {<<>>, <<"ok">>}
  /\ Respond(dl, outcome)

IsoNext ==
  \/ \E url \in Urls : Enqueue(url)
  \/ \E t \in timers : TimerFire(t)
  \/ \E dl \in deliveries, outcome \in Outcomes : IsoRespond(dl, outcome)
  \/ \E dl \in deliveries : RetryFire(dl)
  \/ LiveTick

IsoSpec == IsoInit /\ [][IsoNext]_vars

\* The worker as a whole for one webhook: enqueues, wake-up timers, registry
\* changes, and the responses and retries of the sends, with MaxLiveEntries
\* payloads, each enqueued once the chain of the one before it has ended
WorkerNext ==
  \/ \E url \in Dests : SendLiveEnqueue(url)
  \/ \E t \in timers : TimerFire(t)
  \/ \E w \in Registries : StorageChange(w)
  \/ Configure
  \/ \E dl \in deliveries, outcome \in Outcomes : IsoRespond(dl, outcome)
  \/ \E dl \in deliveries : RetryFire(dl)
  \/ LiveTick

WorkerSpec == Init /\ [][WorkerNext]_vars

\* ------------------------------------------------------- the context menus
MenuTickMs == DebounceMs \div 2
MenuMaxTime == StartTime + MaxTicks * DebounceMs

\* the timer of updateWebhookMenus fires: the menus are removed and built
\* again from the stored webhooks
MenuTimerFire(t) ==
  /\ t \in menus.timers
  /\ now >= t.due
  /\ menus' = [menus EXCEPT !.timers = @ \ {t}, !.rebuilds = @ + 1,
                            !.served = menus.calls, !.calls = 0]
  /\ UNCHANGED <<now, webhooks, webhookList, popup, modal, cfgPending, webhookQueues, timers,
                 queueNotifications, pendingShow, intervals, ceilings, rendered, deliveries,
                 enqueued, dispatched, rlSince, sentBefore, drained, lastGap, failures,
                 notificationInterval>>

MenuTick ==
  /\ now + MenuTickMs <= MenuMaxTime
  /\ now' = now + MenuTickMs
  /\ UNCHANGED <<webhooks, webhookList, popup, modal, menus, cfgPending, webhookQueues, timers,
                 queueNotifications, pendingShow, intervals, ceilings, rendered, deliveries,
                 enqueued, dispatched, rlSince, sentBefore, drained, lastGap, failures,
                 notificationInterval>>

\* The context menus: the webhook list is stored at any time, which calls
\* updateWebhookMenus and initializeQueues, and the timer of
\* updateWebhookMenus runs at or after its time
MenuNext ==
  \/ \E w \in Registries : StorageChange(w)
  \/ Configure
  \/ \E t \in menus.timers : MenuTimerFire(t)
  \/ MenuTick

MenuSpec == Init /\ [][MenuNext]_vars

\* ---------------------------------------------------------- the note modal
MaxClicks == 3                  \* context-menu clicks in one run

\* contextMenus.onClicked for a webhook with enableNoteModal, with its storage
\* callbacks: the click is stored under "pendingWebhook" and a modal window
\* is opened.  A click is its number: the webhook, the info and the tab of the
\* click are what is stored and later sent.
onClicked(click) ==
  /\ click \in 1..MaxClicks
  /\ click = Len(modal.clicks) + 1
  /\ modal' = [modal EXCEPT !.pendingWebhook = click,
                            !.windows = @ \cup {click},
                            !.clicks = Append(@, "open")]

\* handleFormSubmit of the modal of the click: the note is sent to the worker
handleFormSubmit(click) ==
  /\ click \in modal.windows
  /\ modal' = [modal EXCEPT !.windows = @ \ {click},
                            !.requests = @ \cup {[type |-> "sendWebhookWithNote", click |-> click]},
                            !.clicks[click] = "submitted"]

\* the Cancel button of the modal of the click
cancel(click) ==
  /\ click \in modal.windows
  /\ modal' = [modal EXCEPT !.windows = @ \ {click},
                            !.requests = @ \cup {[type |-> "modalCanceled", click |-> click]},
                            !.clicks[click] = "cancelled"]

\* runtime.onMessage with its storage callback: a note is sent with what is
\* stored under "pendingWebhook", if anything is, by extractDataAndSend, which
\* ends in addToQueue; then, and after a cancel, "pendingWebhook" is removed
onMessage(request) ==
  /\ request \in modal.requests
  /\ IF request.type = "sendWebhookWithNote"
     THEN IF modal.pendingWebhook # NoClick
          THEN modal' = [modal EXCEPT !.requests = @ \ {request},
                                      !.sent = Append(@, [data |-> modal.pendingWebhook,
                                                          modal |-> request.click]),
                                      !.pendingWebhook = NoClick]
          ELSE modal' = [modal EXCEPT !.requests = @ \ {request}]
     ELSE modal' = [modal EXCEPT !.requests = @ \ {request}, !.pendingWebhook = NoClick]

NotModal == <<now, webhooks, webhookList, popup, menus, cfgPending, webhookQueues, timers,
              queueNotifications, pendingShow, intervals, ceilings, rendered, deliveries,
              enqueued, dispatched, rlSince, sentBefore, drained, lastGap, failures,
              notificationInterval>>

\* The note modal: context-menu clicks on webhooks with the note modal
\* enabled, the modals submitted or cancelled in any order, and the worker
\* answering their messages
ModalNext ==
  \/ \E click \in 1..MaxClicks : onClicked(click) /\ UNCHANGED NotModal
  \/ \E click \in modal.windows : handleFormSubmit(click) /\ UNCHANGED NotModal
  \/ \E click \in modal.windows : cancel(click) /\ UNCHANGED NotModal
  \/ \E request \in modal.requests : onMessage(request) /\ UNCHANGED NotModal

ModalSpec == Init /\ [][ModalNext]_vars

\* ------------------------------------------------------------------ the popup
\* The text of a form field is a sequence of characters; a url or a name is
\* written with one character for the whole of its non-blank part.

\* String.prototype.trim
RECURSIVE trimStart(_)
trimStart(text) ==
  IF text # <<>> /\ Head(text) = " " THEN trimStart(Tail(text)) ELSE text

RECURSIVE trimEnd(_)
trimEnd(text) ==
  IF text # <<>> /\ text[Len(text)] = " " THEN trimEnd(SubSeq(text, 1, Len(text) - 1))
  ELSE text

trim(text) == trimEnd(trimStart(text))

\* the string of a trimmed text
Str(text) == IF text = <<>> THEN "" ELSE text[1]

DigitChars == <<"0", "1", "2", "3", "4", "5", "6", "7", "8", "9">>

IsDigit(c) == \E d \in 1..Len(DigitChars) : DigitChars[d] = c

DigitValue(c) == (CHOOSE d \in 1..Len(DigitChars) : DigitChars[d] = c) - 1

RECURSIVE LeadingDigits(_)
LeadingDigits(text) ==
  IF text # <<>> /\ IsDigit(Head(text)) THEN <<Head(text)>> \o LeadingDigits(Tail(text))
  ELSE <<>>

RECURSIVE Decimal(_)
Decimal(digits) ==
  IF digits = <<>> THEN 0
  ELSE Decimal(SubSeq(digits, 1, Len(digits) - 1)) * 10 + DigitValue(digits[Len(digits)])

NaN == [nan |-> TRUE, value |-> 0]

Number(n) == [nan |-> FALSE, value |-> n]

\* parseInt(text, 10): leading blanks, a sign, then digits up to the first
\* character that is none; NaN without a digit
parseInt(text) ==
  LET start == trimStart(text)
      signed == start # <<>> /\ Head(start) \in {"-", "+"}
      digits == LeadingDigits(IF signed THEN Tail(start) ELSE start)
  IN IF digits = <<>> THEN NaN
     ELSE IF signed /\ Head(start) = "-" THEN Number(0 - Decimal(digits))
     ELSE Number(Decimal(digits))

\* new URL(url).protocol, "TypeError" when the constructor throws
Protocol(url) ==
  CASE url = <<"u1">> -> "https:"
    [] url = <<"u2">> -> "http:"
    [] url = <<"ftp://h">> -> "ftp:"
    [] OTHER -> "TypeError"

validateURL(url) == Protocol(url) \in {"http:", "https:"}

\* what a user types into the fields of the webhook form
UrlTexts == {<<>>, <<" ", "u1">>, <<"u2">>, <<"ftp://h">>, <<"h">>}
NameTexts == {<<>>, <<"n", " ">>}
RateTexts == {<<>>, <<"1", " ">>, <<"-", "1">>, <<"a">>}

\* loadWebhooks: one card for each webhook of the stored array, until
\* createWebhookCard reads a property of null and throws
Rendered(list) == [i \in 1..Len(Visited(list)) |-> FALSE]

\* webhooks[index] = hook: the array grows to the index, with holes
SetAt(list, index, hook) ==
  [k \in 1..(IF index > Len(list) THEN index ELSE Len(list)) |->
     IF k = index THEN hook ELSE IF k <= Len(list) THEN list[k] ELSE Null]

\* webhooks.splice(index, 1)
Splice(list, index) ==
  [k \in 1..(Len(list) - 1) |-> IF k < index THEN list[k] ELSE list[k + 1]]

\* showError(message) after a click on a submit button; a success message is
\* recorded as "success"
RequiredText == "Both URL and name are required."
InvalidUrlText == "Please enter a valid HTTP or HTTPS URL."
RateLimitText == "Rate limit must be a positive number (seconds)."
IntervalText == "Notification interval must be between 1 and 60 seconds."

showError(message) == popup' = [popup EXCEPT !.message = message, !.clicked = "outside"]

\* chrome.storage.local.set({ webhooks }) and its callback: the list is
\* rendered again and, after a submit, the form is cleared; storage.onChanged
\* makes the worker call initializeQueues
Save(list, index, clicked) ==
  /\ cfgPending < MaxCfgPending
  /\ webhookList' = list
  /\ webhooks' = Lookup(list)
  /\ cfgPending' = cfgPending + 1
  /\ popup' = [popup EXCEPT !.cards = Rendered(list), !.index = index,
                            !.message = "success", !.clicked = clicked]
  /\ menus' = updateWebhookMenus(menus)

Background == <<now, webhookQueues, timers, queueNotifications, pendingShow, intervals,
                ceilings, rendered, deliveries, enqueued, dispatched, rlSince, sentBefore,
                drained, lastGap, failures, modal>>

\* the submit handler of webhookForm; customFieldsParse: JSON.parse of the
\* hidden custom fields input returns, or throws
webhookFormSubmitNoRateTest(urlText, nameText, rateLimitText, customFieldsParse) ==
  LET url == trim(urlText)
      name == trim(nameText)
      rateLimit == trim(rateLimitText)
      rateLimitValue == IF rateLimit # <<>> THEN parseInt(rateLimit) ELSE Number(0)
      hook == [url |-> Str(url), name |-> Str(name), rateLimit |-> rateLimitValue.value]
      isEditing == popup.index # 0
  IN /\ IF url = <<>> \/ name = <<>>
        THEN showError(RequiredText) /\ UNCHANGED <<webhooks, webhookList, cfgPending, menus>>
        ELSE IF ~validateURL(url)
        THEN showError(InvalidUrlText) /\ UNCHANGED <<webhooks, webhookList, cfgPending, menus>>
        ELSE IF ~customFieldsParse
        THEN popup' = [popup EXCEPT !.clicked = "outside"]
             /\ UNCHANGED <<webhooks, webhookList, cfgPending, menus>>
        ELSE IF isEditing
        THEN Save(SetAt(webhookList, popup.index, hook), 0, "outside")
        ELSE Len(webhookList) < MaxWebhooks /\ Save(Append(webhookList, hook), 0, "outside")
     /\ UNCHANGED <<Background, notificationInterval>>

webhookFormSubmit(urlText, nameText, rateLimitText, customFieldsParse) ==
  LET url == trim(urlText)
      name == trim(nameText)
      rateLimit == trim(rateLimitText)
      rateLimitValue == IF rateLimit # <<>> THEN parseInt(rateLimit) ELSE Number(0)
      hook == [url |-> Str(url), name |-> Str(name), rateLimit |-> rateLimitValue.value]
      isEditing == popup.index # 0
  IN /\ IF url = <<>> \/ name = <<>>
        THEN showError(RequiredText) /\ UNCHANGED <<webhooks, webhookList, cfgPending, menus>>
        ELSE IF ~validateURL(url)
        THEN showError(InvalidUrlText) /\ UNCHANGED <<webhooks, webhookList, cfgPending, menus>>
        ELSE IF ~customFieldsParse
        THEN popup' = [popup EXCEPT !.clicked = "outside"]
             /\ UNCHANGED <<webhooks, webhookList, cfgPending, menus>>
        ELSE IF rateLimit # <<>> /\ (rateLimitValue.nan \/ rateLimitValue.value < 0)
        THEN showError(RateLimitText) /\ UNCHANGED <<webhooks, webhookList, cfgPending, menus>>
        ELSE IF isEditing
        THEN Save(SetAt(webhookList, popup.index, hook), 0, "outside")
        ELSE Len(webhookList) < MaxWebhooks /\ Save(Append(webhookList, hook), 0, "outside")
     /\ UNCHANGED <<Background, notificationInterval>>

\* editWebhook(index): the form is filled and webhookForm.dataset.index is set
editWebhook(index) ==
  /\ index \in 1..Len(popup.cards)
  /\ popup' = [popup EXCEPT !.index = index, !.clicked = "outside"]
  /\ UNCHANGED <<webhooks, webhookList, cfgPending, menus, Background, notificationInterval>>

\* the close button of the form: hideForm, clearForm
hideForm ==
  /\ popup' = [popup EXCEPT !.index = 0, !.clicked = "outside"]
  /\ UNCHANGED <<webhooks, webhookList, cfgPending, menus, Background, notificationInterval>>

ClickTargets == {"button", "icon"}

\* A click on the delete button of a card, on the button itself or on the icon
\* in it: handleDeleteClick runs, then the click reaches the document.  The
\* listener that the first click adds to the document is called for that same
\* click and, registered once, is removed by it; it reverts the button when the
\* target is not in the button: the icon is not, innerHTML has replaced it.
handleDeleteClick(index, target) ==
  /\ index \in 1..Len(popup.cards)
  /\ IF popup.cards[index]
     THEN Save(Splice(webhookList, index), popup.index, "delete")
     ELSE /\ popup' = [popup EXCEPT !.cards[index] = (target = "button"),
                                     !.clicked = "delete"]
          /\ UNCHANGED <<webhooks, webhookList, cfgPending, menus>>
  /\ UNCHANGED <<Background, notificationInterval>>

\* a click outside the delete buttons: no listener is left on the document
outsideClick ==
  /\ popup' = [popup EXCEPT !.clicked = "outside"]
  /\ UNCHANGED <<webhooks, webhookList, cfgPending, menus, Background, notificationInterval>>

\* The popup: the webhook form, the delete buttons, and the worker's refresh
\* of its queues after each change of the stored webhooks
PopupInit ==
  /\ now = StartTime
  /\ webhookList = <<>>
  /\ webhooks = Lookup(webhookList)
  /\ popup = [Closed EXCEPT !.cards = Rendered(webhookList)]
  /\ notificationInterval \in NotifIntervals
  /\ Started

PopupNext ==
  \/ \E urlText \in UrlTexts, nameText \in NameTexts, rateLimitText \in RateTexts,
        customFieldsParse \in BOOLEAN :
        webhookFormSubmit(urlText, nameText, rateLimitText, customFieldsParse)
  \/ \E index \in 1..MaxWebhooks : editWebhook(index)
  \/ hideForm
  \/ \E index \in 1..MaxWebhooks, target \in ClickTargets : handleDeleteClick(index, target)
  \/ outsideClick
  \/ Configure

PopupSpec == PopupInit /\ [][PopupNext]_vars

\* what a user types into the field of the settings form
IntervalTexts == {<<>>, <<"a">>, <<"-", "1">>, <<"0">>, <<"1">>, <<" ", "1", ".", "5">>,
                  <<"6", "0">>, <<"6", "1">>}

\* the submit handler of settingsForm with the lower limit at 0
settingsFormSubmitFromZero(text) ==
  LET value == parseInt(text)
  IN /\ IF value.nan \/ value.value < 0 \/ value.value > MaxNotificationInterval
        THEN showError(IntervalText) /\ UNCHANGED notificationInterval
        ELSE /\ notificationInterval' = value.value
             /\ popup' = [popup EXCEPT !.message = "success", !.clicked = "outside"]
     /\ UNCHANGED <<webhooks, webhookList, cfgPending, menus, Background>>

\* the submit handler of settingsForm
settingsFormSubmit(text) ==
  LET value == parseInt(text)
  IN /\ IF \/ value.nan
           \/ value.value < MinNotificationInterval
           \/ value.value > MaxNotificationInterval
        THEN showError(IntervalText) /\ UNCHANGED notificationInterval
        ELSE /\ notificationInterval' = value.value
             /\ popup' = [popup EXCEPT !.message = "success", !.clicked = "outside"]
     /\ UNCHANGED <<webhooks, webhookList, cfgPending, menus, Background>>

\* The settings: the settings form of the popup, and the queue notifications
\* of a webhook with a rate limit, which read the stored interval
SettingsInit ==
  /\ now = NotifStartTime
  /\ webhooks = [u \in Dests |-> Min(NotifRates)]
  /\ webhookList = ListOf(webhooks)
  /\ popup = [Closed EXCEPT !.cards = Rendered(webhookList)]
  /\ notificationInterval = NoSetting
  /\ Started

SettingsNext ==
  \/ \E text \in IntervalTexts : settingsFormSubmit(text)
  \/ \E url \in Dests : LiveEnqueue(url)
  \/ \E t \in timers : TimerFire(t)
  \/ \E p \in pendingShow : ShowCallback(p)
  \/ \E i \in intervals : IntervalTick(i)
  \/ \E c \in ceilings : CeilingFire(c)
  \/ NotifTick

SettingsSpec == SettingsInit /\ [][SettingsNext]_vars

\* ------------------------------------------------------- the custom fields
\* The text of the custom fields input is a sequence of characters, with one
\* character for a whole word: a type (Text, Radio, nope) or a name (x).
DslChars == {" ", "\n", "#", "\"", "Text", "Radio", "nope", "x"}

DslTexts == UNION {[1..n -> DslChars] : n \in 0..MaxDslLen}

\* String.prototype.split("\n")
RECURSIVE split(_)
split(text) ==
  IF \A k \in 1..Len(text) : text[k] # "\n" THEN <<text>>
  ELSE LET k == Min({j \in 1..Len(text) : text[j] = "\n"})
       IN <<SubSeq(text, 1, k - 1)>> \o split(SubSeq(text, k + 1, Len(text)))

\* where the quoted string that starts at position i ends: at the next quote,
\* with one character or more in between; 0 if no quoted string starts at i
ClosingQuote(line, i) ==
  LET quotes == {j \in (i + 1)..Len(line) : line[j] = "\""}
  IN IF line[i] = "\"" /\ quotes # {} /\ Min(quotes) > i + 1 THEN Min(quotes) ELSE 0

\* where the run of non-blank characters that starts at position i ends
RECURSIVE RunEnd(_, _)
RunEnd(line, i) ==
  IF i < Len(line) /\ line[i + 1] # " " THEN RunEnd(line, i + 1) ELSE i

\* line.match(/"[^"]+"|\S+/g) || [], from position i on
RECURSIVE match(_, _)
match(line, i) ==
  IF i > Len(line) THEN <<>>
  ELSE IF line[i] = " " THEN match(line, i + 1)
  ELSE LET end == IF ClosingQuote(line, i) # 0 THEN ClosingQuote(line, i)
                  ELSE RunEnd(line, i)
       IN <<SubSeq(line, i, end)>> \o match(line, end + 1)

\* charAt(0).toLowerCase() + slice(1), charAt(0).toUpperCase() + slice(1) and
\* toLowerCase() of a token
LowerWord(c) ==
  CASE c = "Text" -> "text"
    [] c = "Radio" -> "radio"
    [] OTHER -> c

UpperWord(c) ==
  CASE c = "nope" -> "Nope"
    [] c = "x" -> "X"
    [] OTHER -> c

LowerFirst(token) == <<LowerWord(Head(token))>> \o Tail(token)

UpperFirst(token) == <<UpperWord(Head(token))>> \o Tail(token)

toLowerCase(token) == [k \in 1..Len(token) |-> LowerWord(token[k])]

\* token.replace(c, "") and token.replace(/c/g, "")
RECURSIVE replace(_, _)
replace(token, c) ==
  IF token = <<>> THEN <<>>
  ELSE IF Head(token) = c THEN Tail(token)
  ELSE <<Head(token)>> \o replace(Tail(token), c)

replaceAll(token, c) == SelectSeq(token, LAMBDA d : d # c)

\* the decimal digits of a number, as a template literal writes it
RECURSIVE Digits(_)
Digits(n) ==
  IF n < 10 THEN <<DigitChars[n + 1]>>
  ELSE Digits(n \div 10) \o <<DigitChars[(n % 10) + 1]>>

TextTypes == {<<"text">>, <<"password">>, <<"email">>, <<"date">>, <<"color">>, <<"url">>,
              <<"hidden">>}
OtherTypes == {<<"textarea">>, <<"number">>, <<"range">>, <<"checkbox">>, <<"select">>,
               <<"radio">>}

\* parseDslLine(line, index) of a line that is not blank; of the fields of
\* the types other than text only id, type, name and label are kept
parseDslLine(line, index) ==
  LET tokens == match(line, 1)
      fullType == tokens[1]
      rawName == tokens[2]
      rest == SubSeq(tokens, 3, Len(tokens))
      name == LowerFirst(rawName)
      label == UpperFirst(rawName)
      type == replace(fullType, "*")
      baseField == [id |-> name \o <<"-">> \o Digits(index), type |-> toLowerCase(type),
                    name |-> name, label |-> label,
                    required |-> \E k \in 1..Len(fullType) : fullType[k] = "*"]
      quoted == rest # <<>> /\ Head(rest[Len(rest)]) = "\""
      placeholder == IF quoted THEN rest[Len(rest)] ELSE <<"\"", "\"">>
      currentTokens == IF quoted THEN SubSeq(rest, 1, Len(rest) - 1) ELSE rest
      defaultValue == IF currentTokens = <<>> THEN <<>> ELSE currentTokens[1]
  IN IF Len(tokens) < 2
     THEN [id |-> <<"error", "-">> \o Digits(index), type |-> <<"error">>,
           message |-> <<"Invalid line">> \o line]
     ELSE IF baseField.type \in TextTypes
     THEN [id |-> baseField.id, type |-> baseField.type, name |-> name, label |-> label,
           required |-> baseField.required,
           defaultValue |-> replaceAll(defaultValue, "\""),
           placeholder |-> replaceAll(placeholder, "\"")]
     ELSE IF baseField.type = <<"radio">>
     THEN [baseField EXCEPT !.type = <<"radioGroup">>]
     ELSE IF baseField.type \in OtherTypes
     THEN baseField
     ELSE [id |-> <<"error", "-">> \o Digits(index), type |-> <<"error">>,
           message |-> <<"Unknown field type">> \o type]

\* the lines that parseAllLinesAsDSL keeps
Kept(text) ==
  SelectSeq(split(text), LAMBDA line : trim(line) # <<>> /\ Head(trim(line)) # "#")

\* every kept line gets the index of the first one
parseAllLinesAsDSLOneIndex(text) ==
  [k \in 1..Len(Kept(text)) |-> parseDslLine(Kept(text)[k], 0)]

\* parseAllLinesAsDSL: map(parseDslLine) hands each kept line its index
\* among the kept lines; no parsed line is null
parseAllLinesAsDSL(text) ==
  [k \in 1..Len(Kept(text)) |-> parseDslLine(Kept(text)[k], k - 1)]

\* the input listener of the custom fields input
customFieldsInput ==
  /\ popup.customFieldsRaw # <<>>
  /\ popup' = [popup EXCEPT !.customFields = parseAllLinesAsDSL(popup.customFieldsRaw)]
  /\ UNCHANGED <<webhooks, webhookList, cfgPending, menus, Background, notificationInterval>>

\* The custom fields: a text is typed into the input and parsed
DslInit ==
  /\ now = StartTime
  /\ webhookList = <<>>
  /\ webhooks = Lookup(webhookList)
  /\ \E text \in DslTexts : popup = [Closed EXCEPT !.customFieldsRaw = text]
  /\ notificationInterval \in NotifIntervals
  /\ Started

DslNext == customFieldsInput

DslSpec == DslInit /\ [][DslNext]_vars

\* ===================================================================== claims

\* C1: with a rate limit that stays at one value R > 0 between two consecutive
\* dispatches of a webhook, the second dispatch comes at least R seconds after
\* the first, also when the queue had run empty in between.
C1_DispatchSpacing ==
  \A u \in Dests : \A R \in Rates \ {0} :
    (~lastGap[u].first /\ lastGap[u].rates = {R}) => lastGap[u].elapsed >= R * SecondMs

\* a second dispatch exactly R after the first, the queue having run empty in between
C1_Witness ==
  \E u \in Dests : \E R \in Rates \ {0} :
    /\ ~lastGap[u].first /\ lastGap[u].rates = {R}
    /\ lastGap[u].idle /\ lastGap[u].elapsed = R * SecondMs

\* C2: the entries of a webhook are dispatched in the order of their enqueue:
\* the k-th dispatch hands over the k-th entry appended, and the entries still
\* queued are the later ones in their enqueue order.
C2_Fifo ==
  \A u \in Dests :
    /\ \A k \in DOMAIN dispatched[u] : dispatched[u][k] = k
    /\ u \in DOMAIN webhookQueues =>
         \A k \in DOMAIN webhookQueues[u].queue :
           webhookQueues[u].queue[k].id = Len(dispatched[u]) + k

\* two entries dispatched one after the other, with a rate-limit change in between
C2_Witness ==
  \E u \in Dests :
    /\ Len(dispatched[u]) >= 2
    /\ ~lastGap[u].idle
    /\ lastGap[u].rates = Rates

\* C3: at most one wake-up timer is armed per webhook at any instant.
C3_SingleTimer ==
  \A u \in Dests : Cardinality({t \in timers : t.url = u}) <= 1

\* C4: no enqueued entry is lost: when armed timers eventually fire, the
\* entries appended to the queue of a webhook are all dispatched, again and
\* again after every further enqueue.
AllDispatched == \A u \in Dests : Len(dispatched[u]) = enqueued[u]

C5_ThreeExceptionsEndTheChain ==
  \A dl \in deliveries :
    (Len(dl.outcomes) >= 3 /\ \A k \in 1..3 : dl.outcomes[k] = "exception")
      => /\ dl.phase = "done"
         /\ Len(dl.outcomes) = 3
         /\ dl.events = <<"networkError">>

\* C6: an entry answered non-ok on its first two attempts and ok on the third
\* gets one success event and no failure event, and each of its two retries
\* started at least 1000 ms after the response that caused it.
C6_SuccessOnThirdAttempt ==
  \A dl \in deliveries :
    /\ dl.outcomes = <<"nonok", "nonok", "ok">>
         => /\ dl.phase = "done"
            /\ dl.events = <<"success">>
            /\ Len(dl.waits) = 2
    /\ \A k \in DOMAIN dl.waits :
         dl.outcomes[k] = "nonok" => dl.waits[k] >= HttpRetryDelayMs

C6_Witness ==
  \E dl \in deliveries : dl.outcomes = <<"nonok", "nonok", "ok">>

\* The steps of addToQueue for the webhook u, and what the call saw
EnqueueStep(u) == enqueued'[u] = enqueued[u] + 1

QueueBefore(u) == IF u \in DOMAIN webhookQueues THEN webhookQueues[u].queue ELSE <<>>

LastSentBefore(u) == IF u \in DOMAIN webhookQueues THEN webhookQueues[u].lastSent ELSE 0

Shown(u) == \E p \in pendingShow' \ pendingShow : p.url = u

SentInCall(u) == \E k \in DOMAIN dispatched'[u] : dispatched'[u][k] = enqueued'[u]

\* C7: an enqueue for a webhook stored with rate limit 0 dispatches, within
\* the call and in their order, the entries that were pending and the new
\* one; it leaves the queue empty and arms no timer.
C7_ZeroRateDispatchesInCall ==
  [][\A u \in Dests :
       (EnqueueStep(u) /\ StoredRateLimit(u) = 0)
         => /\ webhookQueues'[u].queue = <<>>
            /\ timers' = timers
            /\ dispatched'[u] = dispatched[u]
                                  \o [k \in 1..Len(QueueBefore(u)) |-> QueueBefore(u)[k].id]
                                  \o <<enqueued'[u]>>]_vars

\* an entry was pending behind a timer when the enqueue at rate limit 0 sent both
C7_Witness ==
  \E u \in Dests :
    /\ StoredRateLimit(u) = 0
    /\ u \in DOMAIN webhookQueues /\ webhookQueues[u].queue = <<>>
    /\ webhookQueues[u].lastSent = now
    /\ ~lastGap[u].idle
    /\ \E t \in timers : t.url = u /\ t.id = webhookQueues[u].timer

\* C8: an enqueue for a webhook stored with rate limit 0 never asks for a
\* queue notification and renders none.
C8_ZeroRateNeverNotifies ==
  [][\A u \in Dests :
       (EnqueueStep(u) /\ StoredRateLimit(u) = 0)
         => pendingShow' = pendingShow /\ rendered' \subseteq rendered]_vars

\* two entries enqueued at rate limit 0 in the same instant, no notification asked for
C8_Witness ==
  \E u \in Dests :
    /\ StoredRateLimit(u) = 0
    /\ enqueued[u] >= 2 /\ Len(dispatched[u]) = enqueued[u]
    /\ lastGap[u].rates = {0} /\ lastGap[u].elapsed = 0 /\ lastGap[u].idle
    /\ pendingShow = {}

\* C9 (as claimed): an enqueue asks for a queue notification iff the queue held
\* an entry before the append, or the rate limit is > 0 and the interval since
\* lastSent has not elapsed.
C9_NotifiedIffDeferredAsClaimed ==
  [][\A u \in Dests :
       EnqueueStep(u)
         => (Shown(u) <=>
               \/ Len(QueueBefore(u)) >= 1
               \/ /\ StoredRateLimit(u) > 0
                  /\ now - LastSentBefore(u) < StoredRateLimit(u) * SecondMs)]_vars

\* C9 (amended): an enqueue asks for a queue notification iff the rate limit is
\* > 0 and (the queue held an entry before the append or the interval since
\* lastSent has not elapsed); that is the case exactly when the new entry is
\* not dispatched within the call.
C9_NotifiedIffDeferred ==
  [][\A u \in Dests :
       EnqueueStep(u)
         => /\ Shown(u) <=>
                 /\ StoredRateLimit(u) > 0
                 /\ \/ Len(QueueBefore(u)) >= 1
                    \/ now - LastSentBefore(u) < StoredRateLimit(u) * SecondMs
            /\ Shown(u) <=> ~SentInCall(u)]_vars

\* an entry was deferred in the instant of a dispatch and the notification
\* was asked for
C9_Witness ==
  \E u \in Dests : \E p \in pendingShow :
    /\ p.url = u /\ p.notificationId = <<u, now>>
    /\ u \in DOMAIN webhookQueues
    /\ webhookQueues[u].lastSent = now
    /\ Len(webhookQueues[u].queue) >= 1
    /\ webhookQueues[u].rateLimit > 0

\* C10: the callback of initializeQueues keeps every queue with its entries,
\* lastSent and timer and cancels or arms no timer; it sets the rate limit of
\* the stored webhooks only, and once no storage read is outstanding the rate
\* limit a queue schedules with is the stored one.
C10_ConfigureFrame ==
  /\ [][cfgPending' = cfgPending - 1
          => /\ timers' = timers
             /\ \A u \in DOMAIN webhookQueues :
                  /\ u \in DOMAIN webhookQueues'
                  /\ webhookQueues'[u].queue = webhookQueues[u].queue
                  /\ webhookQueues'[u].lastSent = webhookQueues[u].lastSent
                  /\ webhookQueues'[u].timer = webhookQueues[u].timer
                  /\ webhookQueues'[u].rateLimit =
                       IF u \in DOMAIN webhooks THEN webhooks[u] ELSE webhookQueues[u].rateLimit]_vars
  /\ [](\A u \in DOMAIN webhookQueues :
          (cfgPending = 0 /\ u \in DOMAIN webhooks)
            => webhookQueues[u].rateLimit = webhooks[u])

\* the rate limit of a queue with a pending entry was changed under its armed
\* timer, which still carries the wait of the old rate limit
C10_Witness ==
  \E u \in DOMAIN webhookQueues :
    /\ cfgPending = 0 /\ u \in DOMAIN webhooks
    /\ webhookQueues[u].queue # <<>>
    /\ \E t \in timers :
         /\ t.id = webhookQueues[u].timer
         /\ t.due # webhookQueues[u].lastSent + webhookQueues[u].rateLimit * SecondMs

\* C11: applying a webhook list to the queues a second time changes nothing:
\* whatever the queues hold and whatever list is stored, the queue map after
\* two runs of the callback of initializeQueues on that list is the map after
\* one run (keys, entries, lastSent, rate limits, timer handles), and the
\* callback arms or cancels no timer.
C11_ConfigureIdempotent ==
  /\ [](\A w \in Registries :
          LET once == initializeQueues(webhookQueues, w)
          IN initializeQueues(once, w) = once)
  /\ [][cfgPending' = cfgPending - 1
          => /\ timers' = timers
             /\ initializeQueues(webhookQueues', webhooks) = webhookQueues']_vars

\* a queue with two pending entries behind an armed timer, whose rate limit
\* the stored list has just replaced and another list would replace again
C11_Witness ==
  \E u \in DOMAIN webhookQueues :
    /\ cfgPending = 0 /\ u \in DOMAIN webhooks
    /\ Len(webhookQueues[u].queue) >= 2
    /\ webhookQueues[u].lastSent > 0
    /\ \E t \in timers : t.id = webhookQueues[u].timer
    /\ rlSince[u] = Rates
    /\ \E w \in Registries : initializeQueues(webhookQueues, w) # webhookQueues

\* C12 (as claimed): a webhook that is no longer stored keeps its queue, and
\* every dispatch of one of its entries, also one made by a further enqueue for
\* it, comes at least the rate limit the queue last had after the dispatch
\* before it, one entry at a time.
C12_RemovedKeepsSpacing ==
  [][\A u \in DOMAIN webhookQueues :
       u \notin DOMAIN webhooks
         => /\ u \in DOMAIN webhookQueues'
            /\ Len(dispatched'[u]) > Len(dispatched[u])
                 => /\ now - webhookQueues[u].lastSent
                         >= webhookQueues[u].rateLimit * SecondMs
                    /\ webhookQueues[u].rateLimit > 0
                         => Len(dispatched'[u]) = Len(dispatched[u]) + 1]_vars

\* C13 (as claimed): an enqueue for a webhook that has no queue yet creates a
\* queue with rate limit 0 and dispatches the entry within the call.
C13_NoQueueMakesZeroRateQueue ==
  [][\A u \in Dests :
       (EnqueueStep(u) /\ u \notin DOMAIN webhookQueues)
         => /\ u \in DOMAIN webhookQueues'
            /\ webhookQueues'[u].rateLimit = 0
            /\ dispatched'[u] = <<enqueued'[u]>>]_vars

\* C13 (amended): an enqueue for a webhook that has no queue yet creates a
\* queue with the rate limit stored for the webhook, 0 when the webhook is not
\* stored, and with lastSent unset, so that the entry is dispatched within the
\* call whatever the rate limit: the queue is left empty with lastSent = now,
\* no timer is armed and no queue notification is asked for.
C13_NoQueueDispatchesAtOnce ==
  [][\A u \in Dests :
       (EnqueueStep(u) /\ u \notin DOMAIN webhookQueues)
         => /\ u \in DOMAIN webhookQueues'
            /\ webhookQueues'[u] =
                 [NewQueue(StoredRateLimit(u)) EXCEPT !.lastSent = now]
            /\ u \notin DOMAIN webhooks => webhookQueues'[u].rateLimit = 0
            /\ dispatched'[u] = <<enqueued'[u]>>
            /\ timers' = timers
            /\ pendingShow' = pendingShow]_vars

\* the first entry of a stored webhook with a rate limit was dispatched by the
\* enqueue that created its queue
C13_Witness ==
  \E u \in DOMAIN webhookQueues :
    /\ u \in DOMAIN webhooks /\ webhooks[u] > 0
    /\ webhookQueues[u] = [NewQueue(webhooks[u]) EXCEPT !.lastSent = now]
    /\ dispatched[u] = <<enqueued[u]>>

\* C14 (as claimed): a webhook has at most one displayed queue notification
\* and at most one live update interval at any time.
C14_OneNotificationPerWebhook ==
  \A u \in Dests :
    /\ Cardinality({i \in intervals : i.url = u}) <= 1
    /\ Cardinality({r \in rendered : r.id[1] = u}) <= 1

\* C15 (as claimed): once the 60 s timers set at or after the creation of an
\* update interval or of a displayed notification have run, the interval is
\* cleared and the notification is no longer displayed.
C15_ClearedBySixtySeconds ==
  /\ \A i \in intervals :
       \E c \in ceilings : c.url = i.url /\ c.due >= i.created + AutoClearMs
  /\ \A r \in rendered :
       \E c \in ceilings : c.url = r.id[1] /\ c.due >= r.id[2] + AutoClearMs

\* The steps of the settings callback and of the update interval of a queue
\* notification, and of a dispatch for the webhook u
ShowCallbackStep(p) == p \in pendingShow /\ p \notin pendingShow'

IntervalTickStep(i) ==
  /\ i \in intervals /\ i \notin intervals' /\ now >= i.due
  /\ pendingShow' = pendingShow /\ ceilings' = ceilings
  /\ webhookQueues' = webhookQueues /\ timers' = timers

DispatchStep(u) == Len(dispatched'[u]) > Len(dispatched[u])

\* C16: a webhook with rate limit 10 s whose queue is empty and whose last
\* dispatch was 2 s ago: an enqueue does not dispatch, arms the timer for 8 s
\* later and asks for the queue notification; the notification displayed then
\* says 1 in queue, ~8s remaining; with rate limit 10 s no entry is dispatched
\* earlier than 10 s after the last dispatch, that is 8 s after the enqueue,
\* and a dispatch leaves no queue notification of the webhook in the map or
\* on display.
C16_DeferredByEightSeconds ==
  /\ [][\A u \in DOMAIN webhookQueues :
          (/\ EnqueueStep(u) /\ StoredRateLimit(u) = 10
           /\ webhookQueues[u].queue = <<>>
           /\ now - webhookQueues[u].lastSent = 2 * SecondMs)
            => /\ ~SentInCall(u)
               /\ Len(webhookQueues'[u].queue) = 1
               /\ Shown(u)
               /\ \E t \in timers' : /\ t.id = webhookQueues'[u].timer
                                      /\ t.url = u
                                      /\ t.due = now + 8 * SecondMs]_vars
  /\ [][\A p \in pendingShow :
          (/\ ShowCallbackStep(p)
           /\ p.url \in DOMAIN webhookQueues
           /\ webhookQueues[p.url].rateLimit = 10
           /\ Len(webhookQueues[p.url].queue) = 1
           /\ now - webhookQueues[p.url].lastSent = 2 * SecondMs)
            => [id |-> p.notificationId, positionCount |-> 1, totalWait |-> 8]
                 \in rendered']_vars
  /\ [][\A u \in DOMAIN webhookQueues :
          (DispatchStep(u) /\ webhookQueues[u].rateLimit = 10)
            => /\ now - webhookQueues[u].lastSent >= 10 * SecondMs
               /\ u \notin DOMAIN queueNotifications'
               /\ u \in DOMAIN queueNotifications
                    => \A r \in rendered' : r.id # queueNotifications[u].notificationId]_vars

\* the second entry was dispatched 10 s after the first; the 60 s timer of its
\* notification shows that the notification was displayed 2 s after the first
\* dispatch; nothing is displayed any more
C16_Witness ==
  \E u \in DOMAIN webhookQueues :
    /\ webhooks[u] = 10 /\ enqueued[u] = 2 /\ dispatched[u] = <<1, 2>>
    /\ webhookQueues[u].lastSent = now
    /\ now = NotifStartTime + 10 * SecondMs
    /\ \E c \in ceilings : c.url = u /\ c.due = NotifStartTime + 2 * SecondMs + AutoClearMs
    /\ u \notin DOMAIN queueNotifications
    /\ rendered = {}

\* The estimate as the specification words it: the least whole number of
\* seconds that covers wait + (positionCount - 1) * interval
EstimatedSecondsRemaining(queueData) ==
  LET interval == queueData.rateLimit * SecondMs
      left == interval - (now - queueData.lastSent)
      wait == IF left > 0 THEN left ELSE 0
      positionCount == Len(queueData.queue)
      total == wait + (positionCount - 1) * interval
  IN CHOOSE k \in 0..(positionCount * queueData.rateLimit) :
       k * SecondMs >= total /\ (k - 1) * SecondMs < total

ProgressEvent(notificationId, queueData) ==
  [id |-> notificationId, positionCount |-> Len(queueData.queue),
   totalWait |-> EstimatedSecondsRemaining(queueData)]

QueueOf(wq, u) == IF u \in DOMAIN wq THEN {wq[u]} ELSE {}

TimersOf(ts, u) == {t \in ts : t.url = u}

DeliveriesOf(ds, u) == {dl \in ds : dl.url = u}

Touched(u) ==
  \/ QueueOf(webhookQueues', u) # QueueOf(webhookQueues, u)
  \/ TimersOf(timers', u) # TimersOf(timers, u)
  \/ DeliveriesOf(deliveries', u) # DeliveriesOf(deliveries, u)
  \/ enqueued'[u] # enqueued[u]
  \/ dispatched'[u] # dispatched[u]
  \/ QueueOf(queueNotifications', u) # QueueOf(queueNotifications, u)

TimerFiredStep(u) ==
  /\ enqueued' = enqueued
  /\ \E t \in TimersOf(timers, u) : t \notin timers' /\ now >= t.due

\* C18: every step (enqueue, timer callback with its dispatch, response,
\* retry, terminal failure) changes the queue, lastSent, rate limit, timers
\* and deliveries of one webhook at most; and whatever the deliveries of the
\* other webhook do, a webhook with pending entries has a timer armed, and a
\* timer callback of it that finds the interval elapsed dispatches its head.
C18_Isolation ==
  /\ [][Cardinality({u \in Urls : Touched(u)}) <= 1]_vars
  /\ [](\A u \in DOMAIN webhookQueues :
          webhookQueues[u].queue # <<>> => TimersOf(timers, u) # {})
  /\ [][\A u \in DOMAIN webhookQueues :
          (/\ TimerFiredStep(u)
           /\ webhookQueues[u].queue # <<>>
           /\ ~NeedWait(webhookQueues[u]))
            => dispatched'[u] = Append(dispatched[u], Head(webhookQueues[u].queue).id)]_vars

\* an entry of one webhook failed and is not through its retries, and an
\* entry of the other webhook that was waiting behind the rate limit has been
\* dispatched by its timer since
C18_Witness ==
  \E A \in Urls : \E B \in Urls \ {A} : \E dl \in deliveries :
    /\ dl.url = A /\ dl.outcomes # <<>> /\ dl.phase # "done"
    /\ B \in DOMAIN webhookQueues /\ webhookQueues[B].rateLimit > 0
    /\ Len(dispatched[B]) >= 2
    /\ lastGap[B].elapsed >= SecondMs
    /\ webhookQueues[B].lastSent > dl.failedAt
    /\ webhookQueues[B].lastSent = now

\* The completion event that answers the last response of a chain
KindOf(outcome) ==
  IF outcome = "ok" THEN "success"
  ELSE IF outcome = "nonok" THEN "httpError" ELSE "networkError"

Last(seq) == seq[Len(seq)]

ChainsEnd == \A dl \in deliveries : dl.phase = "done"

WrapperStep == deliveries' # deliveries /\ dispatched' = dispatched

FailedForGood(dl) == dl.phase = "done" /\ dl.events # <<"success">>

\* C20: a response, a retry and the end of a chain change no queue: no entry
\* is appended, lastSent, the rate limits and the armed timers stay as they
\* are; a chain that has ended stays ended, and the entry of a chain that
\* ended in failure is in no queue and is not dispatched again.
C20_WrapperLeavesQueues ==
  /\ [][WrapperStep => /\ webhookQueues' = webhookQueues
                        /\ timers' = timers
                        /\ enqueued' = enqueued]_vars
  /\ [][\A dl \in deliveries : dl.phase = "done" => dl \in deliveries']_vars
  /\ [](\A dl \in deliveries :
          FailedForGood(dl)
            => /\ \A k \in DOMAIN webhookQueues[dl.url].queue :
                    webhookQueues[dl.url].queue[k].id # dl.id
               /\ Cardinality({k \in DOMAIN dispatched[dl.url] :
                                 dispatched[dl.url][k] = dl.id}) = 1)

\* a chain ended in failure after its last retry while a later entry of its
\* webhook was still waiting in the queue behind an armed timer
C20_Witness ==
  \E dl \in deliveries :
    /\ FailedForGood(dl) /\ Len(dl.outcomes) = RetryCountInit + 1
    /\ webhookQueues[dl.url].queue # <<>>
    /\ \E t \in timers : t.url = dl.url /\ t.id = webhookQueues[dl.url].timer

\* C21: a dispatch stamps lastSent with the time of the dispatch, when the
\* request has only been issued; entries that wait have a timer armed for the
\* end of the interval since that dispatch; and no run of processQueue, from
\* an enqueue or a timer, leaves an entry in the queue once that interval has
\* elapsed, whatever state the earlier sends of the webhook are in.
C21_DispatchDoesNotWaitForSends ==
  /\ [][\A u \in Urls :
          DispatchStep(u)
            => /\ webhookQueues'[u].lastSent = now
               /\ \E dl \in deliveries' \ deliveries :
                    /\ dl.url = u /\ dl.id = Last(dispatched'[u])
                    /\ dl.phase = "fetch" /\ dl.outcomes = <<>>]_vars
  /\ [](\A u \in DOMAIN webhookQueues :
          webhookQueues[u].queue # <<>>
            => \E t \in TimersOf(timers, u) :
                 t.due <= webhookQueues[u].lastSent + webhookQueues[u].rateLimit * SecondMs)
  /\ [][\A u \in DOMAIN webhookQueues' :
          ((EnqueueStep(u) \/ TimerFiredStep(u)) /\ webhookQueues'[u].queue # <<>>)
            => now - webhookQueues'[u].lastSent < webhookQueues'[u].rateLimit * SecondMs]_vars

\* the second entry of a webhook was dispatched exactly one interval after the
\* first while no send of the webhook was through and one was in its retries
C21_Witness ==
  \E u \in DOMAIN webhookQueues :
    /\ webhookQueues[u].rateLimit > 0
    /\ Len(dispatched[u]) >= 2
    /\ webhookQueues[u].lastSent = now
    /\ lastGap[u].elapsed = webhookQueues[u].rateLimit * SecondMs
    /\ \A dl \in DeliveriesOf(deliveries, u) : dl.phase # "done"
    /\ \E dl \in DeliveriesOf(deliveries, u) : dl.outcomes # <<>>

\* C22 (as claimed): the success events of a webhook come in the order of the
\* dispatches: no entry gets its success event when an entry dispatched after
\* it to the same webhook already has one.
C22_SuccessInQueueOrder ==
  [][\A dl \in deliveries' \ deliveries :
       dl.events = <<"success">>
         => \A o \in DeliveriesOf(deliveries, dl.url) :
              o.id > dl.id => o.events # <<"success">>]_vars

\* the rate limit a text of the webhook form stands for
RateLimitOf(rateLimitText) == parseInt(trim(rateLimitText))

Negative(rateLimitText) ==
  /\ trim(rateLimitText) # <<>>
  /\ ~RateLimitOf(rateLimitText).nan
  /\ RateLimitOf(rateLimitText).value < 0

\* C23: a webhook submitted with a negative rate limit is rejected: the stored
\* webhooks stay as they are, no refresh of the queues is started and no queue
\* is created or changed; no stored webhook and no queue ever has a negative
\* rate limit.
C23_NegativeRateRejected ==
  /\ [][(\/ webhookList' # webhookList
          \/ webhooks' # webhooks
          \/ cfgPending' # cfgPending
          \/ webhookQueues' # webhookQueues)
          => \A urlText \in UrlTexts, nameText \in NameTexts, rateLimitText \in RateTexts,
                customFieldsParse \in BOOLEAN :
                Negative(rateLimitText)
                  => ~webhookFormSubmit(urlText, nameText, rateLimitText, customFieldsParse)]_vars
  /\ [](\A i \in 1..Len(webhookList) :
          ~IsNull(webhookList[i]) => webhookList[i].rateLimit >= 0)
  /\ [](\A u \in DOMAIN webhookQueues : webhookQueues[u].rateLimit >= 0)

\* a rate limit was rejected while a webhook is stored and has its queue
C23_Witness ==
  /\ popup.message = RateLimitText
  /\ webhookList # <<>>
  /\ cfgPending = 0
  /\ \E u \in DOMAIN webhooks : u \in DOMAIN webhookQueues

\* C24: no step removes a queue from the map, whose keys are the urls; the
\* lastSent of a queue changes at a dispatch only, to the time of the dispatch;
\* and an enqueue to an empty queue less than the rate limit after the last
\* dispatch is deferred: the new entry stays in the queue, lastSent stays, and
\* the timer is armed for the end of the interval.
C24_QueuesKept ==
  /\ [][DOMAIN webhookQueues \subseteq DOMAIN webhookQueues']_vars
  /\ [][\A u \in DOMAIN webhookQueues :
          webhookQueues'[u].lastSent # webhookQueues[u].lastSent
            => DispatchStep(u) /\ webhookQueues'[u].lastSent = now]_vars
  /\ [][\A u \in DOMAIN webhookQueues :
          (/\ EnqueueStep(u)
           /\ webhookQueues[u].queue = <<>>
           /\ now - webhookQueues[u].lastSent < webhookQueues'[u].rateLimit * SecondMs)
            => /\ ~DispatchStep(u)
               /\ webhookQueues'[u].queue = <<[id |-> enqueued'[u]]>>
               /\ webhookQueues'[u].lastSent = webhookQueues[u].lastSent
               /\ \E t \in timers' :
                    /\ t.id = webhookQueues'[u].timer
                    /\ t.url = u
                    /\ t.due = webhookQueues[u].lastSent
                                 + webhookQueues'[u].rateLimit * SecondMs]_vars

\* an entry waits, less than the rate limit after the last dispatch, in a
\* queue that this dispatch had left empty
C24_Witness ==
  \E u \in DOMAIN webhookQueues :
    /\ drained[u]
    /\ dispatched[u] # <<>>
    /\ Len(webhookQueues[u].queue) = 1
    /\ webhookQueues[u].lastSent > 0
    /\ now > webhookQueues[u].lastSent
    /\ now - webhookQueues[u].lastSent < webhookQueues[u].rateLimit * SecondMs

\* C25 (as claimed): before the 60 s timer of any queue notification can have
\* fired, a webhook whose queue holds entries that wait for the rate limit has
\* a queue notification: one in the map or on display, an update interval
\* running for it, or the settings read that displays it in flight; this also
\* when an earlier entry of the burst was dispatched.
C25_NotifiedWhileWaiting ==
  \A u \in DOMAIN webhookQueues :
    (/\ webhookQueues[u].queue # <<>>
     /\ now - webhookQueues[u].lastSent < webhookQueues[u].rateLimit * SecondMs
     /\ now < NotifStartTime + AutoClearMs)
      => \/ u \in DOMAIN queueNotifications
         \/ \E p \in pendingShow : p.url = u
         \/ \E i \in intervals : i.url = u
         \/ \E r \in rendered : r.id[1] = u

\* the number the settings form reads from its field is one it accepts
Accepted(text) ==
  /\ ~parseInt(text).nan
  /\ parseInt(text).value \in 1..60

\* C26: the stored notification interval changes only by a submit of the
\* settings form whose field reads (parseInt) as an integer from 1 to 60, to
\* that integer; a submit that reads as anything else leaves the stored
\* settings as they are and shows the error; so the stored interval is always
\* an integer from 1 to 60 or not stored; and the update interval of a queue
\* notification is the stored interval, 5 s with none stored.
C26_IntervalValidated ==
  /\ [][notificationInterval' # notificationInterval
          => \E text \in IntervalTexts :
               /\ Accepted(text)
               /\ notificationInterval' = parseInt(text).value
               /\ popup'.message = "success"]_vars
  /\ [][\A text \in IntervalTexts :
          (~Accepted(text) /\ settingsFormSubmit(text))
            => /\ notificationInterval' = notificationInterval
               /\ popup'.message = IntervalText]_vars
  /\ [](notificationInterval = NoSetting \/ notificationInterval \in 1..60)
  /\ [][\A p \in pendingShow :
          ShowCallbackStep(p)
            => \E i \in intervals' :
                 /\ i.notificationId = p.notificationId
                 /\ i.created = now
                 /\ i.due = now + i.period
                 /\ i.period = IF notificationInterval = NoSetting THEN 5 * SecondMs
                               ELSE notificationInterval * SecondMs]_vars

\* a rejected submit has left the interval unset, and a queue notification
\* is updated every 5 s
C26_Witness ==
  /\ notificationInterval = NoSetting
  /\ popup.message = IntervalText
  /\ \E i \in intervals : i.period = 5 * SecondMs /\ i.due > i.created + i.period

\* a webhook with a name, an http or https url and a rate limit of 0 or more
ValidWebhook(hook) ==
  /\ ~IsNull(hook)
  /\ hook.name # ""
  /\ Protocol(<<hook.url>>) \in {"http:", "https:"}
  /\ hook.rateLimit >= 0

\* C27 (as claimed): every element of the stored webhook list is a webhook
\* with a non-empty name, an http or https url and a rate limit >= 0.
C27_StoredWebhooksValid ==
  \A i \in 1..Len(webhookList) : ValidWebhook(webhookList[i])

\* C28 (as claimed): a click outside the delete buttons reverts a delete
\* button that a first click had put into the confirm state: after such a
\* click no button is in the confirm state, and the next click on the button
\* deletes nothing.
C28_OutsideClickReverts ==
  popup.clicked = "outside" => \A i \in 1..Len(popup.cards) : ~popup.cards[i]

\* a line with a character that is not a blank, the first of which is not #
Meaningful(line) ==
  /\ \E k \in 1..Len(line) : line[k] # " "
  /\ line[Min({k \in 1..Len(line) : line[k] # " "})] # "#"

\* the number of meaningful lines among the first n lines
RECURSIVE CountMeaningful(_, _)
CountMeaningful(lines, n) ==
  IF n = 0 THEN 0
  ELSE CountMeaningful(lines, n - 1) + (IF Meaningful(lines[n]) THEN 1 ELSE 0)

\* the line the k-th object is made from: the k-th meaningful line
LineOf(text, k) ==
  LET lines == split(text)
  IN lines[Min({n \in 1..Len(lines) :
                  Meaningful(lines[n]) /\ CountMeaningful(lines, n) = k})]

\* the type a line names is one of the types of the parser
KnownType(line) ==
  toLowerCase(replace(match(line, 1)[1], "*")) \in TextTypes \cup OtherTypes

\* C29: the fields parsed from a text are one object for each line that is
\* neither blank nor a comment (first non-blank character #), in the order
\* of the lines; the object is an error object exactly when its line has
\* fewer than two tokens or names an unknown type, and a field object with
\* the name of its line otherwise; the ids of the objects are pairwise
\* distinct.
C29_OneObjectPerLine ==
  [][popup'.customFields # popup.customFields
       => LET text == popup.customFieldsRaw
              fields == popup'.customFields
          IN /\ Len(fields) = CountMeaningful(split(text), Len(split(text)))
             /\ \A k \in 1..Len(fields) :
                  LET line == LineOf(text, k)
                      tokens == match(line, 1)
                  IN IF Len(tokens) < 2 \/ ~KnownType(line)
                     THEN /\ fields[k].type = <<"error">>
                          /\ DOMAIN fields[k] = {"id", "type", "message"}
                     ELSE /\ fields[k].type # <<"error">>
                          /\ fields[k].name = LowerFirst(tokens[2])
                          /\ fields[k].type \in TextTypes \cup OtherTypes \cup {<<"radioGroup">>}
             /\ \A j, k \in 1..Len(fields) : j # k => fields[j].id # fields[k].id]_vars

\* a field and an error object have been parsed from one text
C29_Witness ==
  /\ Len(popup.customFields) = 2
  /\ \E j, k \in 1..2 :
       /\ popup.customFields[j].type = <<"text">>
       /\ popup.customFields[k].type = <<"error">>
  /\ popup.customFields[1].id # popup.customFields[2].id

\* the delay of the retry a failure of this kind schedules
FlatDelay(outcome) == IF outcome = "nonok" THEN HttpRetryDelayMs ELSE NetRetryDelayMs

\* the one record a step puts in the place of dl
Successor(dl) == CHOOSE d \in deliveries' \ deliveries : d.id = dl.id /\ d.url = dl.url

Attempts(dl) == Len(dl.waits) + 1

NewlyDispatched(u) == SubSeq(dispatched'[u], Len(dispatched[u]) + 1, Len(dispatched'[u]))

\* the k first entries of a queue
Heads(queue, k) == [i \in 1..k |-> queue[i].id]

\* what the queue held when the step's dispatches began: with the entry the
\* step enqueued, if any
QueueAtDispatch(u) ==
  IF EnqueueStep(u) THEN Append(QueueBefore(u), [id |-> enqueued'[u]]) ELSE QueueBefore(u)

\* C32: no entry is dispatched twice, and none that is still queued has been
\* dispatched, whichever timers fire and in whatever order; the entries a
\* step dispatches are the first ones of the queue, which the step removes;
\* and a timer callback that finds the queue empty changes nothing.
C32_DispatchedOnce ==
  /\ [](\A u \in Urls :
          /\ \A j, k \in DOMAIN dispatched[u] : j # k => dispatched[u][j] # dispatched[u][k]
          /\ u \in DOMAIN webhookQueues
               => \A j \in DOMAIN dispatched[u], k \in DOMAIN webhookQueues[u].queue :
                    dispatched[u][j] # webhookQueues[u].queue[k].id)
  /\ [][\A u \in DOMAIN webhookQueues' :
          DispatchStep(u)
            => LET n == Len(NewlyDispatched(u))
               IN /\ n <= Len(QueueAtDispatch(u))
                  /\ NewlyDispatched(u) = Heads(QueueAtDispatch(u), n)
                  /\ webhookQueues'[u].queue
                       = SubSeq(QueueAtDispatch(u), n + 1, Len(QueueAtDispatch(u)))]_vars
  /\ [][\A u \in DOMAIN webhookQueues :
          (TimerFiredStep(u) /\ webhookQueues[u].queue = <<>>)
            => /\ webhookQueues' = webhookQueues
               /\ dispatched' = dispatched
               /\ deliveries' = deliveries
               /\ timers' \subseteq timers
               /\ pendingShow' = pendingShow /\ queueNotifications' = queueNotifications]_vars

\* two entries have been dispatched, the queue is empty, and a wake-up timer
\* of the webhook is still armed
C32_Witness ==
  \E u \in DOMAIN webhookQueues :
    /\ Len(dispatched[u]) >= 2
    /\ webhookQueues[u].queue = <<>>
    /\ TimersOf(timers, u) # {}

\* C33: after every step, a webhook whose queue holds entries has a wake-up
\* timer armed: also after its rate limit has changed, after a timer has been
\* cancelled and replaced, and after a timer has fired.
C33_PendingHasTimer ==
  \A u \in DOMAIN webhookQueues :
    webhookQueues[u].queue # <<>> => \E t \in timers : t.url = u

\* entries wait behind a timer in a queue whose rate limit has since become 0
C33_Witness ==
  \E u \in DOMAIN webhookQueues :
    /\ webhookQueues[u].queue # <<>>
    /\ webhookQueues[u].rateLimit = 0
    /\ rlSince[u] = Rates
    /\ \E t \in TimersOf(timers, u) : t.due > now

\* C34 (as claimed): an enqueue for a webhook that has a queue leaves the
\* rate limit of the queue as it is: only the callback of initializeQueues
\* changes it.
C34_EnqueueKeepsRateLimit ==
  [][\A u \in DOMAIN webhookQueues :
       EnqueueStep(u) => webhookQueues'[u].rateLimit = webhookQueues[u].rateLimit]_vars

\* the 60 s timer c of showQueueNotification fires in this step
CeilingFiredStep(c) == c \in ceilings /\ ceilings' = ceilings \ {c}

\* C35 (as claimed): a 60 s timer that clears the queue notification of a
\* webhook clears one that is 60 s old: no notification is cleared by the
\* 60 s timer of an earlier notification of the webhook.  The age is counted
\* from the time in the notification id, which is not later than the start of
\* the notification's own 60 s timer.
C35_CeilingClearsItsOwn ==
  [][\A c \in ceilings :
       (/\ CeilingFiredStep(c)
        /\ c.url \in DOMAIN queueNotifications
        /\ c.url \notin DOMAIN queueNotifications')
         => now >= queueNotifications[c.url].notificationId[2] + AutoClearMs]_vars

\* lastSent of the webhook u, 0 while it has no queue (a queue starts with 0)
LastSentOf(wq, u) == IF u \in DOMAIN wq THEN wq[u].lastSent ELSE 0

\* C36: lastSent of a webhook never decreases; a step that dispatches an
\* entry of the webhook sets it to the time of the step, and no other step
\* changes it: not an enqueue that defers, not the callback of
\* initializeQueues, not a timer callback that arms a timer again, not a
\* response or a retry.
C36_LastSentOnlyAtDispatch ==
  /\ [][\A u \in Urls :
          /\ LastSentOf(webhookQueues', u) >= LastSentOf(webhookQueues, u)
          /\ DispatchStep(u) => LastSentOf(webhookQueues', u) = now
          /\ ~DispatchStep(u) => LastSentOf(webhookQueues', u) = LastSentOf(webhookQueues, u)]_vars
  /\ [](\A u \in Urls : LastSentOf(webhookQueues, u) <= now)

\* lastSent is the time of the second dispatch, made by a timer; since then
\* the stored rate limit has changed and the send has failed once
C36_Witness ==
  \E u \in DOMAIN webhookQueues :
    /\ Len(dispatched[u]) = 2
    /\ webhookQueues[u].lastSent > StartTime
    /\ webhookQueues[u].lastSent < now
    /\ rlSince[u] = Rates
    /\ \E dl \in deliveries : dl.url = u /\ dl.id = 2 /\ dl.outcomes # <<>> /\ dl.phase # "done"

\* the rate limit of the webhook was R at every moment from the dispatch of
\* the entry of a to the dispatch of the entry of b
FixedRate(a, b, R) ==
  \A dl \in DeliveriesOf(deliveries, a.url) : (a.id < dl.id /\ dl.id <= b.id) => dl.rates = {R}

\* C37: entries of a webhook dispatched while its rate limit was one value
\* R > 0 are spaced by R: the k-th and the j-th entry dispatched (j < k) are
\* at least (k - j) * R apart, so N entries take at least (N - 1) * R from the
\* first dispatch to the last, whenever they were enqueued.
C37_DrainTakesAtLeast ==
  \A u \in Urls, R \in Rates \ {0} :
    /\ \A a, b \in DeliveriesOf(deliveries, u) :
         (a.id < b.id /\ FixedRate(a, b, R))
           => b.sentAt - a.sentAt >= (b.id - a.id) * R * SecondMs
    /\ \A k \in DOMAIN dispatched[u] :
         \E dl \in DeliveriesOf(deliveries, u) : dl.id = dispatched[u][k]

\* three entries of a webhook have been dispatched with one rate limit R > 0,
\* the last exactly 2 * R after the first
C37_Witness ==
  \E u \in Urls, R \in Rates \ {0} :
    \E a, b \in DeliveriesOf(deliveries, u) :
      /\ a.id = 1 /\ b.id = MaxEntries
      /\ FixedRate(a, b, R)
      /\ b.sentAt - a.sentAt = (MaxEntries - 1) * R * SecondMs

\* the calls of extractDataAndSend made for the modal of a click
SentFor(click) == {k \in DOMAIN modal.sent : modal.sent[k].modal = click}

Answered(click) == \A request \in modal.requests : request.click # click

\* C38 (as claimed): a note is sent with the data of the click that opened
\* its modal; a modal that was submitted and whose message the worker has
\* handled has caused one enqueue, a cancelled modal none, however many
\* modals were open at the same time.
C38_OneEnqueuePerSubmit ==
  /\ \A k \in DOMAIN modal.sent : modal.sent[k].data = modal.sent[k].modal
  /\ \A click \in DOMAIN modal.clicks :
       /\ Cardinality(SentFor(click)) <= 1
       /\ modal.clicks[click] # "submitted" => SentFor(click) = {}
       /\ (modal.clicks[click] = "submitted" /\ Answered(click))
            => Cardinality(SentFor(click)) = 1

\* storage.onChanged for the webhooks runs in this step: updateWebhookMenus is called
MenuCallStep == cfgPending' = cfgPending + 1

\* the timer of updateWebhookMenus fires in this step
MenuFireStep == menus'.rebuilds = menus.rebuilds + 1

\* cancel-and-replace: one timer at most is pending; a call leaves the timer
\* it sets, due 100 ms later, as the only one and starts no rebuild; the timer
\* that fires is the one of the last call, at least 100 ms after that call,
\* and starts one rebuild for all the calls since the rebuild before
CancelAndReplace ==
  /\ [](Cardinality(menus.timers) <= 1)
  /\ [][MenuCallStep
          => /\ menus'.timers = {[id |-> menus'.timeout, due |-> now + DebounceMs]}
             /\ menus'.rebuilds = menus.rebuilds]_vars
  /\ [][MenuFireStep
          => /\ \E t \in menus.timers : t.id = menus.timeout /\ now >= t.due
             /\ menus'.timers = {}
             /\ menus.calls >= 1 /\ menus'.served = menus.calls]_vars

\* C39 (as claimed): updateWebhookMenus is debounced by cancel-and-replace,
\* and the timer a call cancels is one of a call less than 100 ms before it:
\* the timer of the last call of every burst fires, one rebuild per burst.
C39_OneRebuildPerBurst ==
  /\ CancelAndReplace
  /\ [][MenuCallStep => \A t \in menus.timers : now < t.due]_vars

\* C39 (amended): updateWebhookMenus is debounced by cancel-and-replace: a
\* call cancels the timer that is pending, whenever it was set, so no rebuild
\* runs between two calls less than 100 ms apart, the timer that fires is
\* always the one of the last call, and one timer at most is pending, the one
\* whose handle updateWebhookMenusTimeout holds; a burst whose timer has not
\* run when the next call comes gets no rebuild of its own.
C39_Debounced ==
  /\ CancelAndReplace
  /\ [](\A t \in menus.timers :
          /\ t.id = menus.timeout
          /\ t.due <= now + DebounceMs
          /\ menus.calls >= 1)

\* the first rebuild has come after two calls or more, all of them less than
\* 100 ms after the call before, and no timer is pending
C39_Witness ==
  /\ menus.rebuilds = 1
  /\ menus.served > 1
  /\ menus.timers = {}
  /\ now < StartTime + DebounceMs + DebounceMs
====
